---- MODULE Spec2Model ----
(***************************************************************************)
(* A model of the workflow orchestration runtime of ultrarag/core:         *)
(*   tool_registry.py     ToolRegistry                                     *)
(*   server_manager.py    ServerManager                                    *)
(*   workflow_executor.py SimpleMustache, WorkflowExecutor                 *)
(*                                                                         *)
(* Python values are tagged records: None, bool, int, float, str, dict.    *)
(* A Python string is a sequence of tokens (TLA+ strings); the template    *)
(* delimiters "{{" and "}}", the path separator ".", and the sigils "#",   *)
(* "/", "^", "$" are tokens of their own, every other token is a piece of  *)
(* text that contains none of them.  A dict key is one token.              *)
(***************************************************************************)
EXTENDS Integers, Sequences, FiniteSets, TLC

(***************************************************************************)
(* Python values                                                           *)
(***************************************************************************)
NoneV == [k |-> "none"]
BoolV(b) == [k |-> "bool", b |-> b]
IntV(n) == [k |-> "int", n |-> n]
\* a float, held in hundredths (1.08 is FloatV(108))
FloatV(h) == [k |-> "float", h |-> h]
StrV(s) == [k |-> "str", s |-> s]
DictV(d) == [k |-> "dict", d |-> d]
ListV(items) == [k |-> "list", items |-> items]

EmptyMap == <<>>

\* dict[key] = v
Upd(f, key, v) == [x \in DOMAIN f \cup {key} |-> IF x = key THEN v ELSE f[x]]

\* dict.update(g): the entries of g win
Merge(f, g) == [x \in DOMAIN f \cup DOMAIN g |-> IF x \in DOMAIN g THEN g[x] ELSE f[x]]

\* dict.pop(key)
Remove(f, key) == [x \in DOMAIN f \ {key} |-> f[x]]

\* the decimal digits, as int() reads them and str() writes them
DigitTokens == <<"0", "1", "2", "3", "4", "5", "6", "7", "8", "9">>

IsDigit(tok) == \E i \in 1..10 : DigitTokens[i] = tok

DigitVal(tok) == (CHOOSE i \in 1..10 : DigitTokens[i] = tok) - 1

RECURSIVE NatStr(_)
\* str(n) for n >= 0: one token per digit
NatStr(n) == IF n < 10 THEN <<DigitTokens[n + 1]>>
             ELSE NatStr(n \div 10) \o <<DigitTokens[(n % 10) + 1]>>

IntStr(n) == IF n < 0 THEN <<"-">> \o NatStr(0 - n) ELSE NatStr(n)

\* str(x) of a float x >= 0 held in hundredths: "3.0", "1.5", "1.08"
FloatStr(h) ==
  LET frac == h % 100
  IN  NatStr(h \div 100) \o <<".">> \o
      (IF frac % 10 = 0 THEN <<DigitTokens[(frac \div 10) + 1]>>
       ELSE <<DigitTokens[(frac \div 10) + 1], DigitTokens[(frac % 10) + 1]>>)

\* str(value), as _render_variables uses it.  The repr of a dict is one
\* opaque token: its text is never read back.
StrOf(v) ==
  CASE v.k = "none"  -> <<"None">>
    [] v.k = "bool"  -> IF v.b THEN <<"True">> ELSE <<"False">>
    [] v.k = "int"   -> IntStr(v.n)
    [] v.k = "float" -> FloatStr(v.h)
    [] v.k = "str"   -> v.s
    [] v.k = "dict"  -> <<"{...}">>
    [] v.k = "list"  -> <<"[...]">>

\* Python truthiness (bool(value)), as `if not template`, `x or y` and
\* result.get("success", False) use it
PyTruthy(v) ==
  CASE v.k = "none"  -> FALSE
    [] v.k = "bool"  -> v.b
    [] v.k = "int"   -> v.n # 0
    [] v.k = "float" -> v.h # 0
    [] v.k = "str"   -> v.s # <<>>
    [] v.k = "dict"  -> DOMAIN v.d # {}
    [] v.k = "list"  -> v.items # <<>>

(***************************************************************************)
(* SimpleMustache                                                          *)
(***************************************************************************)
\* s[i..j] (empty when j < i)
Slice(s, i, j) == IF j < i THEN <<>> ELSE SubSeq(s, i, j)

RECURSIVE LStrip(_)
LStrip(s) == IF s # <<>> /\ Head(s) = " " THEN LStrip(Tail(s)) ELSE s

RECURSIVE RStrip(_)
RStrip(s) == IF s # <<>> /\ s[Len(s)] = " " THEN RStrip(Slice(s, 1, Len(s) - 1)) ELSE s

\* str.strip()
Strip(s) == RStrip(LStrip(s))

RECURSIVE SplitDots(_)
\* key.split('.'): the sequence of parts, each a token sequence
SplitDots(s) ==
  IF \E i \in 1..Len(s) : s[i] = "."
  THEN LET i == CHOOSE j \in 1..Len(s) : s[j] = "." /\ \A m \in 1..(j - 1) : s[m] # "."
       IN  <<Slice(s, 1, i - 1)>> \o SplitDots(Slice(s, i + 1, Len(s)))
  ELSE <<s>>

RECURSIVE Walk(_, _)
\* the loop of _get_value over the parts of the path
Walk(parts, current) ==
  IF parts = <<>> THEN current
  ELSE LET part == Head(parts)
       IN  IF current.k = "dict" /\ Len(part) = 1 /\ part[1] \in DOMAIN current.d
           THEN Walk(Tail(parts), current.d[part[1]])
           ELSE NoneV

\* SimpleMustache._get_value(key, context)
GetValue(key, context) ==
  IF key = <<>> THEN NoneV
  ELSE LET key1 == IF Head(key) = "$" THEN Tail(key) ELSE key
       IN  Walk(SplitDots(key1), context)

\* str.lower() of one token, for the spellings the model's texts use
LowerTok(tok) ==
  CASE tok \in {"False", "FALSE"} -> "false"
    [] tok \in {"No", "NO"}       -> "no"
    [] OTHER                      -> tok

\* str.lower()
Lower(s) == [i \in 1..Len(s) |-> LowerTok(s[i])]

\* SimpleMustache._is_truthy(value)
IsTruthy(v) ==
  CASE v.k = "none"  -> FALSE
    [] v.k = "bool"  -> v.b
    [] v.k = "int"   -> v.n # 0
    [] v.k = "float" -> v.h # 0
    [] v.k = "str"   -> Lower(v.s) \notin {<<"false">>, <<"no">>, <<"0">>, <<>>}
    [] v.k = "dict"  -> DOMAIN v.d # {}
    [] v.k = "list"  -> v.items # <<>>

\* the smallest element of a non-empty set of integers
MinOf(S) == CHOOSE x \in S : \A y \in S : x <= y

\* replace_variable putting nothing where the value is None
ReplaceVariableBlank(s, i, j, context) ==
  LET var_key == Strip(Slice(s, i + 1, j - 1))
      value   == GetValue(var_key, context)
  IN  IF var_key # <<>> /\ Head(var_key) \in {"#", "^", "/"} THEN Slice(s, i, j)
      ELSE IF value # NoneV THEN StrOf(value)
      ELSE <<>>

\* replace_variable(match) of _render_variables; match is s[i..j], "{{" ... "}}"
ReplaceVariable(s, i, j, context) ==
  LET var_key == Strip(Slice(s, i + 1, j - 1))
      value   == GetValue(var_key, context)
  IN  IF var_key # <<>> /\ Head(var_key) \in {"#", "^", "/"} THEN Slice(s, i, j)
      ELSE IF value # NoneV THEN StrOf(value)
      ELSE Slice(s, i, j)

RECURSIVE RenderVariablesFrom(_, _, _)
\* re.sub(r'{{(.*?)}}', replace_variable, template) from position p on
RenderVariablesFrom(s, p, context) ==
  LET opens == {i \in p..Len(s) : s[i] = "{{" /\ \E j \in (i + 1)..Len(s) : s[j] = "}}"}
  IN  IF opens = {} THEN Slice(s, p, Len(s))
      ELSE LET i == MinOf(opens)
               j == MinOf({m \in (i + 1)..Len(s) : s[m] = "}}"})
           IN  Slice(s, p, i - 1) \o ReplaceVariable(s, i, j, context)
                 \o RenderVariablesFrom(s, j + 1, context)

\* SimpleMustache._render_variables(template, context)
RenderVariables(template, context) == RenderVariablesFrom(template, 1, context)

\* the matches of r'{{#(.*?)}}(.*?){{/\1}}' that start at i: <<j, m>> with
\* s[j] the "}}" closing the opening tag and s[m] the "{{" of the closing tag
BlockMatches(s, i) ==
  IF ~(i + 1 <= Len(s) /\ s[i] = "{{" /\ s[i + 1] = "#") THEN {}
  ELSE {jm \in ((i + 2)..Len(s)) \X ((i + 3)..Len(s)) :
          LET j  == jm[1]
              m  == jm[2]
              g1 == Slice(s, i + 2, j - 1)
          IN  /\ s[j] = "}}"
              /\ m > j
              /\ m + Len(g1) + 2 <= Len(s)
              /\ s[m] = "{{"
              /\ s[m + 1] = "/"
              /\ Slice(s, m + 2, m + 1 + Len(g1)) = g1
              /\ s[m + Len(g1) + 2] = "}}"}

\* replace_condition(match) of _render_condition_blocks
ReplaceCondition(s, i, j, m, context) ==
  LET condition_key   == Strip(Slice(s, i + 2, j - 1))
      block_content   == Slice(s, j + 1, m - 1)
      condition_value == GetValue(condition_key, context)
  IN  IF IsTruthy(condition_value) THEN block_content ELSE <<>>

RECURSIVE RenderConditionBlocksFrom(_, _, _)
\* re.sub(pattern, replace_condition, template, flags=re.DOTALL) from p on:
\* the leftmost start, the shortest first group, then the shortest second
RenderConditionBlocksFrom(s, p, context) ==
  LET starts == {i \in p..Len(s) : BlockMatches(s, i) # {}}
  IN  IF starts = {} THEN Slice(s, p, Len(s))
      ELSE LET i  == MinOf(starts)
               j  == MinOf({jm[1] : jm \in BlockMatches(s, i)})
               m  == MinOf({jm[2] : jm \in {x \in BlockMatches(s, i) : x[1] = j}})
               e  == m + (j - (i + 2)) + 2
           IN  Slice(s, p, i - 1) \o ReplaceCondition(s, i, j, m, context)
                 \o RenderConditionBlocksFrom(s, e + 1, context)

\* SimpleMustache._render_condition_blocks(template, context)
RenderConditionBlocks(template, context) == RenderConditionBlocksFrom(template, 1, context)

\* SimpleMustache.render(template, context)
Render(template, context) ==
  IF template = <<>> THEN template
  ELSE RenderConditionBlocks(RenderVariables(template, context), context)

(***************************************************************************)
(* The environment: tool types, their classes, the identifier pool         *)
(***************************************************************************)
\* the size of the identifier pool (100 in the source, scaled down)
PoolSize == 2

\* the first port of range(8000, 8100)
PortBase == 8000

\* how many tool instances are constructed at most
MaxInstances == 3

\* ServerManager.__init__: set(range(8000, 8100))
Ports == PortBase..(PortBase + PoolSize - 1)

\* the tool types (server types) that exist under servers/
ToolTypes == {"quote", "news", "calc"}

\* the callables a tool class exposes (the tools are external to the core)
ToolMethods == [t \in ToolTypes |-> {"fetch_data", "health_check"}]

\* the attributes of a tool instance that are data, not callables (such as
\* self.daily_limit = 25 of servers/economic_calendar)
ToolAttributes == [t \in ToolTypes |-> {"daily_limit"}]

\* the method names a caller may ask for
MethodNames == {"fetch_data", "no_such", "daily_limit"}

\* a tool definition names its class file; the file exists ("ok") or not
ClassFiles == {"ok", "missing"}

\* the definitions a driver registers: "news" has two, one naming a class
\* file that does not exist
ToolDefs ==
  {[name |-> "quote", cls |-> "ok"],
   [name |-> "news", cls |-> "ok"],
   [name |-> "news", cls |-> "missing"],
   [name |-> "calc", cls |-> "ok"]}

\* the "parameters" of a tool configuration
Params == {"p1", "p2"}

\* what a tool method does when called: it returns an envelope or raises
SuccessEnvelope ==
  DictV("success" :> BoolV(TRUE) @@ "rate" :> FloatV(108) @@ "source" :> StrV(<<"feed">>))

FailureEnvelope == DictV("success" :> BoolV(FALSE) @@ "error" :> StrV(<<"timeout">>))

\* a failure envelope that carries a key next to the error, as the tools of
\* servers/economic_calendar return ("source")
FailureEnvelopeWithData ==
  DictV("success" :> BoolV(FALSE) @@ "error" :> StrV(<<"timeout">>)
        @@ "source" :> StrV(<<"feed">>))

\* an envelope without a success flag
NoFlagEnvelope == DictV("rate" :> FloatV(108))

ToolOutcomes ==
  {[kind |-> "return", value |-> SuccessEnvelope],
   [kind |-> "return", value |-> FailureEnvelope],
   [kind |-> "return", value |-> FailureEnvelopeWithData],
   [kind |-> "return", value |-> NoFlagEnvelope],
   [kind |-> "raise", value |-> StrV(<<"boom">>)]}

(***************************************************************************)
(* State                                                                   *)
(***************************************************************************)
VARIABLES
  tool_definitions,  \* ToolRegistry.tool_definitions: name -> definition
  servers,           \* ServerManager.servers: tool type -> handle
  port_pool,         \* ServerManager.port_pool
  next_instance,     \* identity of the next constructed tool instance
  last               \* the last call made on the registry or the manager

VARIABLES
  results,           \* WorkflowExecutor.results: step name -> entry
  stored_data,       \* WorkflowExecutor.stored_data: name -> value
  tool_mapping,      \* WorkflowExecutor.tool_mapping: tool name -> tool type
  verbose,           \* WorkflowExecutor.verbose
  pc,                \* where execute_workflow is: idle, starting, steps,
                     \* returned, aborted (an exception left it)
  cur,               \* the name of the workflow being executed
  tool_idx,          \* the position of the loop over config.tools
  frames,            \* the active _execute_steps calls, outermost first
  stdout,            \* the line the last PRINT step of this run wrote
  runs,              \* the number of execute_workflow calls so far
  executed,          \* the names of the steps executed in this run, in order
  entry_results,     \* results as it was when this run was entered
  twin,              \* the run as it would be had one failed TOOL step succeeded
  workflow_config,   \* the document the caller passed to execute_workflow, as
                     \* the caller holds it (doc), and whether stored_data
                     \* is the very dict doc.variables (shared)
  looping            \* the instances whose server thread is in the loop of
                     \* _run_server

mgr_vars == <<tool_definitions, servers, port_pool, next_instance>>

exec_vars == <<results, stored_data, tool_mapping, verbose, pc, cur, tool_idx,
               frames, stdout, runs, executed, entry_results, twin, workflow_config,
                 looping>>

vars == <<tool_definitions, servers, port_pool, next_instance, last,
          results, stored_data, tool_mapping, verbose, pc, cur, tool_idx,
          frames, stdout, runs, executed, entry_results, twin, workflow_config,
                 looping>>

(***************************************************************************)
(* ToolRegistry                                                            *)
(***************************************************************************)
\* register_tool keeping the definition a name already has
RegisterToolFirstWins(defs, tool_def) ==
  IF tool_def.name \in DOMAIN defs THEN defs ELSE Upd(defs, tool_def.name, tool_def)

\* ToolRegistry.register_tool(tool_def): the registry afterwards
RegisterTool(defs, tool_def) == Upd(defs, tool_def.name, tool_def)

\* ToolRegistry.load_tool_class(tool_name): the class, or what is raised
LoadToolClass(defs, tool_name) ==
  IF tool_name \notin DOMAIN defs
  THEN [raised |-> "ValueError", cls |-> ""]
  ELSE IF defs[tool_name].cls = "missing"
  THEN [raised |-> "FileNotFoundError", cls |-> ""]
  ELSE [raised |-> "none", cls |-> tool_name]

\* create_tool_instance handing out one cached object for every call
CreateToolInstanceCached(defs, tool_name, config, id) ==
  LET c == LoadToolClass(defs, tool_name)
  IN  IF c.raised # "none" THEN [raised |-> c.raised, instance |-> NoneV]
      ELSE [raised |-> "none",
            instance |-> [id |-> 1, cls |-> c.cls, config |-> config]]

\* ToolRegistry.create_tool_instance(tool_name, config)
CreateToolInstance(defs, tool_name, config, id) ==
  LET c == LoadToolClass(defs, tool_name)
  IN  IF c.raised # "none" THEN [raised |-> c.raised, instance |-> NoneV]
      ELSE [raised |-> "none",
            instance |-> [id |-> id, cls |-> c.cls, config |-> config]]

\* start_server without its "already running" early return
StartServerRestart(defs, srv, pool, nxt, tool_name, server_config, port) ==
  IF pool = {}
  THEN [servers |-> srv, port_pool |-> pool, next_instance |-> nxt,
        raised |-> "RuntimeError", ret |-> 0]
  ELSE LET made == CreateToolInstance(defs, tool_name, server_config.parameters, nxt)
       IN  IF made.raised # "none"
           THEN [servers |-> srv, port_pool |-> pool \ {port}, next_instance |-> nxt,
                 raised |-> made.raised, ret |-> 0]
           ELSE [servers |-> Upd(srv, tool_name,
                                 [port |-> port, instance |-> made.instance,
                                  config |-> server_config]),
                 port_pool |-> pool \ {port}, next_instance |-> nxt + 1,
                 raised |-> "none", ret |-> port]

\* start_server without its "no port available" check
StartServerNoExhaust(defs, srv, pool, nxt, tool_name, server_config, port) ==
  IF tool_name \in DOMAIN srv
  THEN [servers |-> srv, port_pool |-> pool, next_instance |-> nxt,
        raised |-> "none", ret |-> srv[tool_name].port]
  ELSE LET made == CreateToolInstance(defs, tool_name, server_config.parameters, nxt)
       IN  IF made.raised # "none"
           THEN [servers |-> srv, port_pool |-> pool \ {port}, next_instance |-> nxt,
                 raised |-> made.raised, ret |-> 0]
           ELSE [servers |-> Upd(srv, tool_name,
                                 [port |-> port, instance |-> made.instance,
                                  config |-> server_config]),
                 port_pool |-> pool \ {port}, next_instance |-> nxt + 1,
                 raised |-> "none", ret |-> port]

(***************************************************************************)
(* ServerManager                                                           *)
(***************************************************************************)
\* ServerManager.start_server(tool_name, server_config), with port the
\* element port_pool.pop() takes when the pool is drawn from
StartServer(defs, srv, pool, nxt, tool_name, server_config, port) ==
  IF tool_name \in DOMAIN srv
  THEN [servers |-> srv, port_pool |-> pool, next_instance |-> nxt,
        raised |-> "none", ret |-> srv[tool_name].port]
  ELSE IF pool = {}
  THEN [servers |-> srv, port_pool |-> pool, next_instance |-> nxt,
        raised |-> "RuntimeError", ret |-> 0]
  ELSE LET made == CreateToolInstance(defs, tool_name, server_config.parameters, nxt)
       IN  IF made.raised # "none"
           THEN [servers |-> srv, port_pool |-> pool \ {port}, next_instance |-> nxt,
                 raised |-> made.raised, ret |-> 0]
           ELSE [servers |-> Upd(srv, tool_name,
                                 [port |-> port, instance |-> made.instance,
                                  config |-> server_config]),
                 port_pool |-> pool \ {port}, next_instance |-> nxt + 1,
                 raised |-> "none", ret |-> port]

\* the ports port_pool.pop() may take (any element; one value when no
\* port is drawn)
PopChoices(srv, pool, tool_name) ==
  IF tool_name \in DOMAIN srv \/ pool = {} THEN {0} ELSE pool

\* stop_server without port_pool.add
StopServerKeepPort(srv, pool, tool_name) ==
  IF tool_name \in DOMAIN srv
  THEN [servers |-> Remove(srv, tool_name), port_pool |-> pool]
  ELSE [servers |-> srv, port_pool |-> pool]

\* ServerManager.stop_server(tool_name)
StopServer(srv, pool, tool_name) ==
  IF tool_name \in DOMAIN srv
  THEN [servers |-> Remove(srv, tool_name),
        port_pool |-> pool \cup {srv[tool_name].port}]
  ELSE [servers |-> srv, port_pool |-> pool]

\* ServerManager.call_tool_method(tool_name, method, **kwargs), with
\* outcome what the tool method does when it is invoked
CallToolMethod(srv, tool_name, method, outcome) ==
  IF tool_name \notin DOMAIN srv
  THEN [raised |-> "ValueError", error |-> <<"server not running: ", tool_name>>,
        ret |-> NoneV, invoked |-> 0]
  ELSE IF method \notin ToolMethods[srv[tool_name].instance.cls]
                         \cup ToolAttributes[srv[tool_name].instance.cls]
  THEN [raised |-> "ValueError",
        error |-> <<"no such tool method: ", tool_name, ".", method>>,
        ret |-> NoneV, invoked |-> 0]
  ELSE IF method \in ToolAttributes[srv[tool_name].instance.cls]
  THEN [raised |-> "TypeError", error |-> <<"object is not callable">>,
        ret |-> NoneV, invoked |-> 0]
  ELSE IF outcome.kind = "raise"
  THEN [raised |-> "Exception", error |-> outcome.value.s, ret |-> NoneV,
        invoked |-> srv[tool_name].instance.id]
  ELSE [raised |-> "none", error |-> <<>>, ret |-> outcome.value,
        invoked |-> srv[tool_name].instance.id]

(***************************************************************************)
(* WorkflowExecutor: helpers                                               *)
(***************************************************************************)
\* the entries of results
Succ(v) == DictV("success" :> BoolV(TRUE) @@ "result" :> v)

Fail(v) == DictV("success" :> BoolV(FALSE) @@ "error" :> v)

\* dict.get(key, default)
Get(d, key, default) == IF key \in DOMAIN d THEN d[key] ELSE default

\* WorkflowExecutor._build_full_context(context); the context argument is
\* empty on every path through _execute_steps
BuildFullContext(res, sd) ==
  LET step_results == [key \in DOMAIN res |->
                         IF res[key].k = "dict" /\ "result" \in DOMAIN res[key].d
                         THEN res[key].d["result"] ELSE res[key]]
      accessors    == ("stored_data" :> DictV(sd)) @@ ("results" :> DictV(res))
  IN  DictV(Merge(Merge(sd, step_results), accessors))

\* "{{" in value or "}}" in value
HasBraces(s) == \E i \in 1..Len(s) : s[i] \in {"{{", "}}"}

\* re.match(r'^{{(.*)}}$', value.strip())
IsPureVar(s) ==
  LET t == Strip(s) IN Len(t) >= 2 /\ t[1] = "{{" /\ t[Len(t)] = "}}"

\* one input of _resolve_inputs_with_mustache
ResolveInput(value, context) ==
  IF value.k = "str" /\ HasBraces(value.s)
  THEN IF IsPureVar(value.s)
       THEN LET t              == Strip(value.s)
                var_path       == Strip(Slice(t, 2, Len(t) - 1))
                resolved_value == GetValue(var_path, context)
            IN  IF resolved_value # NoneV THEN resolved_value ELSE value
       ELSE StrV(Render(value.s, context))
  ELSE value

\* WorkflowExecutor._resolve_inputs_with_mustache(inputs, context)
ResolveInputs(inputs, context) ==
  [key \in DOMAIN inputs |-> ResolveInput(inputs[key], context)]

\* a number in hundredths, for the comparisons of _validate_input
Hundredths(v) == IF v.k = "int" THEN v.n * 100 ELSE v.h

RECURSIVE DigitsVal(_)
\* the value of a non-empty sequence of digit tokens
DigitsVal(s) == IF Len(s) = 1 THEN DigitVal(s[1])
                ELSE DigitsVal(Slice(s, 1, Len(s) - 1)) * 10 + DigitVal(s[Len(s)])

AllDigits(s) == s # <<>> /\ \A i \in 1..Len(s) : IsDigit(s[i])

\* int(value): the integer, or ValueError
ParseInt(s) ==
  IF AllDigits(s) THEN [raised |-> "none", value |-> IntV(DigitsVal(s))]
  ELSE IF Len(s) >= 2 /\ s[1] = "-" /\ AllDigits(Tail(s))
  THEN [raised |-> "none", value |-> IntV(0 - DigitsVal(Tail(s)))]
  ELSE [raised |-> "ValueError", value |-> NoneV]

\* float(value) for digits with at most two decimals, or ValueError
ParseFloat(s) ==
  IF AllDigits(s) THEN [raised |-> "none", value |-> FloatV(DigitsVal(s) * 100)]
  ELSE IF \E i \in 2..(Len(s) - 1) :
            /\ s[i] = "."
            /\ AllDigits(Slice(s, 1, i - 1))
            /\ AllDigits(Slice(s, i + 1, Len(s)))
            /\ Len(s) - i <= 2
  THEN LET i    == CHOOSE j \in 2..(Len(s) - 1) : s[j] = "."
           frac == Slice(s, i + 1, Len(s))
       IN  [raised |-> "none",
            value |-> FloatV(DigitsVal(Slice(s, 1, i - 1)) * 100
                             + (IF Len(frac) = 1 THEN DigitsVal(frac) * 10
                                ELSE DigitsVal(frac)))]
  ELSE [raised |-> "ValueError", value |-> NoneV]

\* the range check shared by the integer and float branches
RangeCheck(parsed, config) ==
  LET min_val == Get(config, "min", NoneV)
      max_val == Get(config, "max", NoneV)
  IN  IF parsed.raised # "none"
      THEN [ok |-> FALSE, value |-> NoneV, error |-> <<"format error">>]
      ELSE IF min_val # NoneV /\ Hundredths(parsed.value) < Hundredths(min_val)
      THEN [ok |-> FALSE, value |-> NoneV, error |-> <<"below minimum">>]
      ELSE IF max_val # NoneV /\ Hundredths(parsed.value) > Hundredths(max_val)
      THEN [ok |-> FALSE, value |-> NoneV, error |-> <<"above maximum">>]
      ELSE [ok |-> TRUE, value |-> parsed.value, error |-> <<>>]

\* WorkflowExecutor._validate_input(value, config)
ValidateInput(value, config) ==
  LET input_type == Get(config, "type", StrV(<<"string">>))
      required   == PyTruthy(Get(config, "required", BoolV(FALSE)))
  IN  IF required /\ value = <<>>
      THEN [ok |-> FALSE, value |-> NoneV, error |-> <<"required">>]
      ELSE IF value = <<>>
      THEN [ok |-> TRUE, value |-> NoneV, error |-> <<>>]
      ELSE IF input_type = StrV(<<"string">>)
      THEN LET min_length == Get(config, "min_length", NoneV)
               max_length == Get(config, "max_length", NoneV)
           IN  IF PyTruthy(min_length) /\ Len(value) < min_length.n
               THEN [ok |-> FALSE, value |-> NoneV, error |-> <<"too short">>]
               ELSE IF PyTruthy(max_length) /\ Len(value) > max_length.n
               THEN [ok |-> FALSE, value |-> NoneV, error |-> <<"too long">>]
               ELSE [ok |-> TRUE, value |-> StrV(value), error |-> <<>>]
      ELSE IF input_type = StrV(<<"integer">>)
      THEN RangeCheck(ParseInt(value), config)
      ELSE IF input_type = StrV(<<"float">>)
      THEN RangeCheck(ParseFloat(value), config)
      ELSE IF input_type = StrV(<<"choice">>)
      THEN IF LET choices == Get(config, "choices", ListV(<<>>)).items
              IN  \A i \in 1..Len(choices) : choices[i] # StrV(value)
           THEN [ok |-> FALSE, value |-> NoneV, error |-> <<"not a choice">>]
           ELSE [ok |-> TRUE, value |-> StrV(value), error |-> <<>>]
      ELSE [ok |-> TRUE, value |-> StrV(value), error |-> <<>>]

(***************************************************************************)
(* WorkflowExecutor: the step handlers.  Each gives the results and        *)
(* stored_data after the step, the value the handler returns, the line a   *)
(* PRINT step writes, the exception that leaves the handler, and the tool  *)
(* call it dispatched.                                                     *)
(***************************************************************************)
NoCall == [made |-> FALSE]

Effect(res, sd, ret, printed, raised, call) ==
  [results |-> res, stored_data |-> sd, ret |-> ret, printed |-> printed,
   raised |-> raised, call |-> call]

\* store_var = step.get("store_result_as") or step.get("output")
StoreVar(step) == IF step.store_result_as # "" THEN step.store_result_as ELSE step.output

\* _execute_tool_step without its check of the envelope's success flag
ToolStepReturnUnchecked(step, res, sd, result, call) ==
  LET step_name == step.step
      store_var == StoreVar(step)
      sd1       == IF store_var # "" THEN Upd(sd, store_var, result) ELSE sd
      sd2       == Upd(sd1, step_name, result)
  IN  Effect(Upd(res, step_name, Succ(result)), sd2, result, NoneV, "none", call)

\* _execute_tool_step after call_tool_method has returned result
ToolStepReturn(step, res, sd, result, call) ==
  LET step_name == step.step
      store_var == StoreVar(step)
      sd1       == IF store_var # "" THEN Upd(sd, store_var, result) ELSE sd
      sd2       == Upd(sd1, step_name, result)
      success   == result.k = "dict" /\ PyTruthy(Get(result.d, "success", BoolV(FALSE)))
      error_msg == Get(result.d, "error", StrV(<<"unknown error">>))
  IN  IF success
      THEN Effect(Upd(res, step_name, Succ(result)), sd2, result, NoneV, "none", call)
      ELSE Effect(Upd(res, step_name, Fail(error_msg)), sd2, result, NoneV, "none", call)

\* _execute_tool_step with the exception of the call recorded and raised
\* again, as _execute_input_step does on KeyboardInterrupt
ExecuteToolStepReraise(step, res, sd, tm, srv, outcome) ==
  LET step_name == step.step
  IN  IF step.tool \notin DOMAIN tm
      THEN Effect(Upd(res, step_name, Fail(StrV(<<"tool not found: ", step.tool>>))),
                  sd, NoneV, NoneV, "none", NoCall)
      ELSE LET server_type     == tm[step.tool]
               full_context    == BuildFullContext(res, sd)
               resolved_inputs == ResolveInputs(step.inputs, full_context)
               called          == CallToolMethod(srv, server_type, step.method, outcome)
               call            == [made |-> TRUE, server_type |-> server_type,
                                   method |-> step.method, kwargs |-> resolved_inputs,
                                   invoked |-> called.invoked]
           IN  IF called.raised # "none"
               THEN Effect(Upd(res, step_name, Fail(StrV(called.error))),
                           sd, NoneV, NoneV, called.raised, call)
               ELSE ToolStepReturn(step, res, sd, called.ret, call)

\* WorkflowExecutor._execute_tool_step(step, context), with outcome what the
\* tool method does if it is invoked
ExecuteToolStep(step, res, sd, tm, srv, outcome) ==
  LET step_name == step.step
  IN  IF step.tool \notin DOMAIN tm
      THEN Effect(Upd(res, step_name, Fail(StrV(<<"tool not found: ", step.tool>>))),
                  sd, NoneV, NoneV, "none", NoCall)
      ELSE LET server_type     == tm[step.tool]
               full_context    == BuildFullContext(res, sd)
               resolved_inputs == ResolveInputs(step.inputs, full_context)
               called          == CallToolMethod(srv, server_type, step.method, outcome)
               call            == [made |-> TRUE, server_type |-> server_type,
                                   method |-> step.method, kwargs |-> resolved_inputs,
                                   invoked |-> called.invoked]
           IN  IF called.raised # "none"
               THEN Effect(Upd(res, step_name, Fail(StrV(called.error))),
                           sd, NoneV, NoneV, "none", call)
               ELSE ToolStepReturn(step, res, sd, called.ret, call)

\* WorkflowExecutor._execute_print_step(step, context)
ExecutePrintStep(step, res, sd) ==
  LET message          == step.config.message
      full_context     == BuildFullContext(res, sd)
      resolved_message == Render(message, full_context)
      result           == Succ(StrV(resolved_message))
  IN  Effect(Upd(res, step.step, result), sd, result, StrV(resolved_message),
             "none", NoCall)

\* _execute_input_step storing the rejected line under the output variable
ExecuteInputStepKeepInvalid(step, res, sd, typed) ==
  LET config        == step.config
      var_name      == step.output
      default_value == Get(config, "default", StrV(<<>>))
      line          == Strip(typed.line)
      user_input    == IF line = <<>> /\ PyTruthy(default_value)
                       THEN default_value.s ELSE line
      v             == ValidateInput(user_input, config)
      stored_value  == IF v.value # NoneV THEN v.value ELSE StrV(user_input)
  IN  IF var_name = ""
      THEN Effect(Upd(res, step.step, Fail(StrV(<<"input step has no output">>))),
                  sd, NoneV, NoneV, "none", NoCall)
      ELSE IF typed.kind = "KeyboardInterrupt"
      THEN Effect(Upd(res, step.step, Fail(StrV(<<"input cancelled by user">>))),
                  sd, NoneV, NoneV, "KeyboardInterrupt", NoCall)
      ELSE IF typed.kind = "EOFError"
      THEN Effect(Upd(res, step.step, Fail(StrV(<<"input step failed: ", "EOF">>))),
                  sd, NoneV, NoneV, "none", NoCall)
      ELSE IF v.ok
      THEN Effect(Upd(res, step.step, Succ(stored_value)),
                  Upd(sd, var_name, stored_value), stored_value, NoneV, "none", NoCall)
      ELSE Effect(Upd(res, step.step,
                      Fail(StrV(<<"input validation failed: ">> \o v.error))),
                  Upd(sd, var_name, StrV(user_input)), NoneV, NoneV, "none", NoCall)

\* _execute_input_step without the raise that follows the recording of a
\* KeyboardInterrupt
ExecuteInputStepNoReraise(step, res, sd, typed) ==
  LET config        == step.config
      var_name      == step.output
      default_value == Get(config, "default", StrV(<<>>))
      line          == Strip(typed.line)
      user_input    == IF line = <<>> /\ PyTruthy(default_value)
                       THEN default_value.s ELSE line
      v             == ValidateInput(user_input, config)
      stored_value  == IF v.value # NoneV THEN v.value ELSE StrV(user_input)
  IN  IF var_name = ""
      THEN Effect(Upd(res, step.step, Fail(StrV(<<"input step has no output">>))),
                  sd, NoneV, NoneV, "none", NoCall)
      ELSE IF typed.kind = "KeyboardInterrupt"
      THEN Effect(Upd(res, step.step, Fail(StrV(<<"input cancelled by user">>))),
                  sd, NoneV, NoneV, "none", NoCall)
      ELSE IF typed.kind = "EOFError"
      THEN Effect(Upd(res, step.step, Fail(StrV(<<"input step failed: ", "EOF">>))),
                  sd, NoneV, NoneV, "none", NoCall)
      ELSE IF v.ok
      THEN Effect(Upd(res, step.step, Succ(stored_value)),
                  Upd(sd, var_name, stored_value), stored_value, NoneV, "none", NoCall)
      ELSE Effect(Upd(res, step.step,
                      Fail(StrV(<<"input validation failed: ">> \o v.error))),
                  sd, NoneV, NoneV, "none", NoCall)

\* WorkflowExecutor._execute_input_step(...), with typed what input() does:
\* it returns a line, or raises KeyboardInterrupt or EOFError
ExecuteInputStep(step, res, sd, typed) ==
  LET config        == step.config
      var_name      == step.output
      default_value == Get(config, "default", StrV(<<>>))
      line          == Strip(typed.line)
      user_input    == IF line = <<>> /\ PyTruthy(default_value)
                       THEN default_value.s ELSE line
      v             == ValidateInput(user_input, config)
      stored_value  == IF v.value # NoneV THEN v.value ELSE StrV(user_input)
  IN  IF var_name = ""
      THEN Effect(Upd(res, step.step, Fail(StrV(<<"input step has no output">>))),
                  sd, NoneV, NoneV, "none", NoCall)
      ELSE IF typed.kind = "KeyboardInterrupt"
      THEN Effect(Upd(res, step.step, Fail(StrV(<<"input cancelled by user">>))),
                  sd, NoneV, NoneV, "KeyboardInterrupt", NoCall)
      ELSE IF typed.kind = "EOFError"
      THEN Effect(Upd(res, step.step, Fail(StrV(<<"input step failed: ", "EOF">>))),
                  sd, NoneV, NoneV, "none", NoCall)
      ELSE IF v.ok
      THEN Effect(Upd(res, step.step, Succ(stored_value)),
                  Upd(sd, var_name, stored_value), stored_value, NoneV, "none", NoCall)
      ELSE Effect(Upd(res, step.step,
                      Fail(StrV(<<"input validation failed: ">> \o v.error))),
                  sd, NoneV, NoneV, "none", NoCall)

\* WorkflowExecutor._execute_set_variable_step(step, context)
ExecuteSetVariableStep(step, res, sd) ==
  LET var_name       == step.config.variable
      value          == step.config.value
      full_context   == BuildFullContext(res, sd)
      resolved_value == IF value.k = "str" THEN StrV(Render(value.s, full_context))
                        ELSE value
      result         == Succ(resolved_value)
  IN  IF var_name = ""
      THEN Effect(Upd(res, step.step, Fail(StrV(<<"set_variable step has no variable">>))),
                  sd, NoneV, NoneV, "none", NoCall)
      ELSE Effect(Upd(res, step.step, result), Upd(sd, var_name, resolved_value),
                  result, NoneV, "none", NoCall)

\* _execute_loop_step before its first iteration, _execute_branch_step and
\* _execute_router_step: nothing is recorded
ExecuteNoRecordStep(step, res, sd) == Effect(res, sd, NoneV, NoneV, "none", NoCall)

\* the else branch of _execute_step: an unknown step type
ExecuteUnknownStep(step, res, sd) ==
  Effect(Upd(res, step.step, Fail(StrV(<<"unknown step type: ", step.type>>))),
         sd, NoneV, NoneV, "none", NoCall)

\* what the outside world does during a step: the tool's outcome (tool
\* steps) and what input() does (input steps)
NoOutcome == [kind |-> "none", value |-> NoneV]

NoTyped == [kind |-> "none", line |-> <<>>, more |-> <<>>]

\* WorkflowExecutor._execute_step(step, ...): the dispatch on the step type
ExecuteStep(step, res, sd, tm, srv, outcome, typed) ==
  CASE step.type = "print"        -> ExecutePrintStep(step, res, sd)
    [] step.type = "tool"         -> ExecuteToolStep(step, res, sd, tm, srv, outcome)
    [] step.type = "input"        -> ExecuteInputStep(step, res, sd, typed)
    [] step.type = "set_variable" -> ExecuteSetVariableStep(step, res, sd)
    [] step.type \in {"loop", "branch", "router"} -> ExecuteNoRecordStep(step, res, sd)
    [] OTHER                      -> ExecuteUnknownStep(step, res, sd)

(***************************************************************************)
(* Workflow configurations (the documents execute_workflow is given)       *)
(***************************************************************************)
ToolStep(name, tool, method, inputs, store, out) ==
  [step |-> name, type |-> "tool", tool |-> tool, method |-> method,
   inputs |-> inputs, store_result_as |-> store, output |-> out]

PrintStep(name, message) ==
  [step |-> name, type |-> "print", config |-> [message |-> message]]

InputStep(name, out, config) ==
  [step |-> name, type |-> "input", output |-> out, config |-> config]

SetVariableStep(name, variable, value) ==
  [step |-> name, type |-> "set_variable",
   config |-> [variable |-> variable, value |-> value]]

LoopStep(name, times, steps) ==
  [step |-> name, type |-> "loop", config |-> [times |-> times, steps |-> steps]]

BranchStep(name, steps) ==
  [step |-> name, type |-> "branch", config |-> [steps |-> steps]]

RouterStep(name, steps) ==
  [step |-> name, type |-> "router", config |-> [steps |-> steps]]

ToolConfig(name, server_type, parameters) ==
  [name |-> name, server_type |-> server_type, parameters |-> parameters]

\* the iteration count of the loop of LoopFlow
LoopTimes == 2

\* variables {pair}, a quote step with an output alias, and PRINT steps that
\* read it by step name, by alias, and not at all
QuoteFlow ==
  [name |-> "quote_flow",
   tools |-> <<ToolConfig("fx", "quote", "p1")>>,
   variables |-> ("pair" :> StrV(<<"EUR/USD">>)),
   workflow |-> <<
     ToolStep("quote", "fx", "fetch_data",
              ("symbol" :> StrV(<<"{{", "pair", "}}">>)), "q", ""),
     PrintStep("show", <<"Rate: ", "{{", "quote", ".", "rate", "}}">>),
     PrintStep("via_alias", <<"Src: ", "{{", "q", ".", "source", "}}">>),
     PrintStep("bye", <<"done">>) >>]

\* a loop over a tool step and a set_variable step, a step naming a tool that
\* was never declared, a step calling a method the tool lacks, stubs
LoopFlow ==
  [name |-> "loop_flow",
   tools |-> <<ToolConfig("fx", "quote", "p1")>>,
   variables |-> ("n" :> IntV(1)),
   workflow |-> <<
     LoopStep("again", LoopTimes, <<
       ToolStep("tick", "fx", "fetch_data",
                ("symbol" :> StrV(<<"X-", "{{", "n", "}}">>)), "", ""),
       SetVariableStep("keep", "seen", StrV(<<"{{", "tick", ".", "rate", "}}">>)) >>),
     ToolStep("ghost", "nope", "fetch_data", EmptyMap, "", ""),
     ToolStep("bad", "fx", "no_such", EmptyMap, "", ""),
     BranchStep("b", <<PrintStep("never", <<"branch">>)>>),
     RouterStep("r", <<PrintStep("nor", <<"route">>)>>),
     PrintStep("end", <<"n=", "{{", "n", "}}">>) >>]

\* more tool types than the pool holds identifiers
ManyToolsFlow ==
  [name |-> "many_tools",
   tools |-> <<ToolConfig("fx", "quote", "p1"), ToolConfig("nw", "news", "p1"),
               ToolConfig("cl", "calc", "p2")>>,
   variables |-> EmptyMap,
   workflow |-> <<
     PrintStep("hello", <<"hi">>),
     ToolStep("sum", "cl", "fetch_data", EmptyMap, "", "total") >>]

\* a variable and a step that share a name
ShadowFlow ==
  [name |-> "shadow_flow",
   tools |-> <<ToolConfig("fx", "quote", "p2")>>,
   variables |-> ("label" :> StrV(<<"EUR/USD">>)),
   workflow |-> <<
     ToolStep("first", "fx", "fetch_data",
              ("symbol" :> StrV(<<"{{", "label", "}}">>)), "", ""),
     PrintStep("label", <<"hello">>),
     ToolStep("lookup", "fx", "fetch_data",
              ("symbol" :> StrV(<<"{{", "label", "}}">>)), "", "") >>]

\* an INPUT step with {type: integer, min: 1, max: 5}
InputFlow ==
  [name |-> "input_flow",
   tools |-> <<>>,
   variables |-> EmptyMap,
   workflow |-> <<
     InputStep("ask", "count",
               ("type" :> StrV(<<"integer">>) @@ "min" :> IntV(1) @@ "max" :> IntV(5))),
     PrintStep("got", <<"n=", "{{", "count", "}}">>) >>]

\* the INPUT step of InputFlow in a loop, and a loop of no iterations, run
\* by a driver that was given count=4 on the command line: cli/run.py puts
\* the parameter into variables and into _provided_params, and sets
\* _interactive_mode to False
ProvidedFlow ==
  [name |-> "provided_flow",
   tools |-> <<>>,
   variables |-> ("count" :> StrV(<<"4">>)),
   provided_params |-> ("count" :> StrV(<<"4">>)),
   interactive_mode |-> FALSE,
   workflow |-> <<
     LoopStep("twice", LoopTimes, <<
       InputStep("ask", "count",
                 ("type" :> StrV(<<"integer">>) @@ "min" :> IntV(1) @@ "max" :> IntV(5))) >>),
     LoopStep("never", 0, <<PrintStep("skipped", <<"no">>)>>),
     PrintStep("after", <<"count=", "{{", "count", "}}">>) >>]

Workflows == {QuoteFlow, LoopFlow, ManyToolsFlow, ShadowFlow, InputFlow, ProvidedFlow}

\* workflow_config.get('_provided_params', {})
ProvidedParams(w) ==
  IF "provided_params" \in DOMAIN w THEN w.provided_params ELSE EmptyMap

\* workflow_config.get('_interactive_mode', False)
InteractiveMode(w) ==
  IF "interactive_mode" \in DOMAIN w THEN w.interactive_mode ELSE FALSE

WorkflowNamed(name) == CHOOSE w \in Workflows : w.name = name

\* what input() may do: return the line the user types, or raise; more is
\* what the user would type next, if asked again
TypedInputs ==
  {[kind |-> "line", line |-> <<"a", "b", "c">>, more |-> <<<<"9">>, <<"3">>>>],
   [kind |-> "line", line |-> <<"9">>, more |-> <<<<"a", "b", "c">>>>],
   [kind |-> "line", line |-> <<"3">>, more |-> <<>>],
   [kind |-> "line", line |-> <<>>, more |-> <<>>],
   [kind |-> "KeyboardInterrupt", line |-> <<>>, more |-> <<>>],
   [kind |-> "EOFError", line |-> <<>>, more |-> <<>>]}

\* how many times execute_workflow is called on the executor
MaxRuns == 2

(***************************************************************************)
(* WorkflowExecutor: the call stack of _execute_steps                      *)
(***************************************************************************)
\* one _execute_steps call: the top-level one, or one made by a loop step
\* (iter of times); result is its local `result`, final_result the loop's
Frame(steps, kind, times) ==
  [steps |-> steps, idx |-> 1, iter |-> 1, times |-> times, kind |-> kind,
   result |-> NoneV, final_result |-> NoneV]

\* fs with its innermost frame replaced
SetTop(fs, f) == [fs EXCEPT ![Len(fs)] = f]

RECURSIVE UnwindLastIteration(_)
\* the returns that follow a step, with a loop returning the result of its
\* last iteration only
UnwindLastIteration(fs) ==
  IF fs = <<>> THEN fs
  ELSE LET top == fs[Len(fs)]
       IN  IF top.idx <= Len(top.steps) THEN fs
           ELSE IF top.kind = "top" THEN <<>>
           ELSE LET final == top.result
                IN  IF top.iter < top.times
                    THEN UnwindLastIteration(
                           SetTop(fs, [top EXCEPT !.idx = 1, !.iter = top.iter + 1,
                                                  !.result = NoneV,
                                                  !.final_result = final]))
                    ELSE LET rest   == Slice(fs, 1, Len(fs) - 1)
                             parent == rest[Len(rest)]
                         IN  UnwindLastIteration(SetTop(rest,
                               [parent EXCEPT !.result =
                                  IF final # NoneV THEN final ELSE parent.result]))

RECURSIVE UnwindForever(_)
\* the returns that follow a step, with a loop that never counts its
\* iterations
UnwindForever(fs) ==
  IF fs = <<>> THEN fs
  ELSE LET top == fs[Len(fs)]
       IN  IF top.idx <= Len(top.steps) THEN fs
           ELSE IF top.kind = "top" THEN <<>>
           ELSE LET final == IF top.result # NoneV THEN top.result
                             ELSE top.final_result
                IN  IF top.times > 0
                    THEN SetTop(fs, [top EXCEPT !.idx = 1, !.result = NoneV,
                                                !.final_result = final])
                    ELSE LET rest   == Slice(fs, 1, Len(fs) - 1)
                             parent == rest[Len(rest)]
                         IN  UnwindForever(SetTop(rest,
                               [parent EXCEPT !.result =
                                  IF final # NoneV THEN final ELSE parent.result]))

RECURSIVE Unwind(_)
\* the returns that follow a step: an _execute_steps call whose steps are
\* done returns; a loop starts its next iteration or returns final_result
\* to the _execute_steps call that ran the loop step
Unwind(fs) ==
  IF fs = <<>> THEN fs
  ELSE LET top == fs[Len(fs)]
       IN  IF top.idx <= Len(top.steps) THEN fs
           ELSE IF top.kind = "top" THEN <<>>
           ELSE LET final == IF top.result # NoneV THEN top.result
                             ELSE top.final_result
                IN  IF top.iter < top.times
                    THEN Unwind(SetTop(fs, [top EXCEPT !.idx = 1, !.iter = top.iter + 1,
                                                       !.result = NoneV,
                                                       !.final_result = final]))
                    ELSE LET rest   == Slice(fs, 1, Len(fs) - 1)
                             parent == rest[Len(rest)]
                         IN  Unwind(SetTop(rest,
                               [parent EXCEPT !.result =
                                  IF final # NoneV THEN final ELSE parent.result]))

\* the for loop of _execute_steps with loop steps doing nothing
AdvanceFramesSkipLoop(fs, step, ret) ==
  LET top  == fs[Len(fs)]
      top1 == [top EXCEPT !.idx = top.idx + 1,
                          !.result = IF step.type # "loop" /\ ret # NoneV
                                     THEN ret ELSE top.result]
  IN  Unwind(SetTop(fs, top1))

\* the for loops of _execute_steps with a branch or router step executing
\* the step list under it once
AdvanceFramesRunBranch(fs, step, ret) ==
  LET top  == fs[Len(fs)]
      top1 == [top EXCEPT !.idx = top.idx + 1,
                          !.result = IF step.type # "loop" /\ ret # NoneV
                                     THEN ret ELSE top.result]
      fs1  == SetTop(fs, top1)
  IN  IF step.type = "loop" /\ step.config.times > 0
      THEN Unwind(Append(fs1, Frame(step.config.steps, "loop", step.config.times)))
      ELSE IF step.type \in {"branch", "router"}
      THEN Unwind(Append(fs1, Frame(step.config.steps, "loop", 1)))
      ELSE Unwind(fs1)

\* the for loops of _execute_steps and _execute_loop_step: the stack after
\* the step at the top frame's position has returned ret
AdvanceFrames(fs, step, ret) ==
  LET top  == fs[Len(fs)]
      top1 == [top EXCEPT !.idx = top.idx + 1,
                          !.result = IF step.type # "loop" /\ ret # NoneV
                                     THEN ret ELSE top.result]
      fs1  == SetTop(fs, top1)
  IN  IF step.type = "loop" /\ step.config.times > 0
      THEN Unwind(Append(fs1, Frame(step.config.steps, "loop", step.config.times)))
      ELSE Unwind(fs1)

\* the step the run is at
CurrentStep == LET top == frames[Len(frames)] IN top.steps[top.idx]

(***************************************************************************)
(* The run that forks from the real one at a failed TOOL step              *)
(***************************************************************************)
NoTwin == [active |-> FALSE]

TokensOf(s) == {s[i] : i \in 1..Len(s)}

\* every token of every template of the step
Mentions(step) ==
  CASE step.type = "tool" ->
         UNION {TokensOf(step.inputs[key].s) :
                  key \in {x \in DOMAIN step.inputs : step.inputs[x].k = "str"}}
    [] step.type = "print" -> TokensOf(step.config.message)
    [] step.type = "set_variable" ->
         IF step.config.value.k = "str" THEN TokensOf(step.config.value.s) ELSE {}
    [] OTHER -> {}

\* the names a step writes under, in results or stored_data
Writes(step) ==
  ({step.step}
   \cup (IF step.type = "tool" THEN {StoreVar(step)} ELSE {})
   \cup (IF step.type = "input" THEN {step.output} ELSE {})
   \cup (IF step.type = "set_variable" THEN {step.config.variable} ELSE {}))
  \ {""}

\* the step reads nothing that may differ between the two runs
Unrelated(step, tainted) == Mentions(step) \cap tainted = {}

IsFailure(entry) == entry.d["success"] = BoolV(FALSE)

(***************************************************************************)
(* Initial state: a fresh registry, manager and executor                   *)
(***************************************************************************)
\* no document has been passed yet
NoConfig == [doc |-> NoneV, shared |-> FALSE]

Init ==
  /\ tool_definitions = EmptyMap
  /\ servers = EmptyMap
  /\ port_pool = Ports
  /\ next_instance = 1
  /\ last = [op |-> "init"]
  /\ results = EmptyMap
  /\ stored_data = EmptyMap
  /\ tool_mapping = EmptyMap
  /\ verbose = TRUE
  /\ pc = "idle"
  /\ cur = ""
  /\ tool_idx = 0
  /\ frames = <<>>
  /\ stdout = NoneV
  /\ runs = 0
  /\ executed = <<>>
  /\ entry_results = EmptyMap
  /\ twin = NoTwin
  /\ workflow_config = NoConfig
  /\ looping = {}

\* no execute_workflow call is in progress
Idle == pc \in {"idle", "returned", "aborted"}

(***************************************************************************)
(* Calls a driver makes on the registry and the manager                    *)
(***************************************************************************)
\* the call before this one stopped the running instance of tool_name
AfterStopOf(tool_name) ==
  last.op = "stop" /\ last.tool = tool_name /\ last.was_running

\* register_tool, called by a driver before it runs a workflow (cli/run.py)
RegisterToolCall ==
  /\ Idle
  /\ runs = 0
  /\ \E tool_def \in ToolDefs :
       /\ tool_definitions' = RegisterTool(tool_definitions, tool_def)
       /\ last' = [op |-> "register", tool |-> tool_def.name, def |-> tool_def]
  /\ UNCHANGED <<servers, port_pool, next_instance>>
  /\ UNCHANGED exec_vars

StartServerCall ==
  /\ Idle
  /\ \E tool_name \in ToolTypes, parameters \in Params :
       \E port \in PopChoices(servers, port_pool, tool_name) :
         LET server_config == [server_type |-> tool_name, parameters |-> parameters]
             r == StartServer(tool_definitions, servers, port_pool, next_instance,
                              tool_name, server_config, port)
         IN  /\ r.next_instance <= MaxInstances + 1
             /\ servers' = r.servers
             /\ port_pool' = r.port_pool
             /\ next_instance' = r.next_instance
             /\ last' = [op |-> "start", tool |-> tool_name, config |-> server_config,
                         was_running |-> tool_name \in DOMAIN servers,
                         pool_before |-> port_pool,
                         after_stop |-> AfterStopOf(tool_name),
                         raised |-> r.raised, ret |-> r.ret]
  /\ UNCHANGED tool_definitions
  /\ UNCHANGED exec_vars

StopServerCall ==
  /\ Idle
  /\ \E tool_name \in ToolTypes :
       LET r == StopServer(servers, port_pool, tool_name)
       IN  /\ servers' = r.servers
           /\ port_pool' = r.port_pool
           /\ last' = [op |-> "stop", tool |-> tool_name,
                       was_running |-> tool_name \in DOMAIN servers,
                       handle |-> IF tool_name \in DOMAIN servers
                                  THEN servers[tool_name] ELSE NoneV,
                       raised |-> "none"]
  /\ UNCHANGED <<tool_definitions, next_instance>>
  /\ UNCHANGED exec_vars

CallToolMethodCall ==
  /\ Idle
  /\ \E tool_name \in ToolTypes, method \in MethodNames, outcome \in ToolOutcomes :
       LET r == CallToolMethod(servers, tool_name, method, outcome)
       IN  last' = [op |-> "call", tool |-> tool_name, method |-> method,
                    outcome |-> outcome, after_stop |-> AfterStopOf(tool_name),
                    raised |-> r.raised, error |-> r.error, ret |-> r.ret,
                    invoked |-> r.invoked]
  /\ UNCHANGED mgr_vars
  /\ UNCHANGED exec_vars

\* the driver sets executor.verbose (cli/run.py)
SetVerbose ==
  /\ Idle
  /\ verbose' = ~verbose
  /\ last' = [op |-> "set_verbose"]
  /\ UNCHANGED mgr_vars
  /\ UNCHANGED <<results, stored_data, tool_mapping, pc, cur, tool_idx, frames,
                 stdout, runs, executed, entry_results, twin, workflow_config,
                 looping>>

(***************************************************************************)
(* WorkflowExecutor.execute_workflow                                       *)
(***************************************************************************)
\* self.stored_data = variables taken as it is: the same dict
SeedStoredDataNoCopy(variables) == [stored_data |-> variables, shared |-> TRUE]

\* self.stored_data = workflow_config.get("variables", {}).copy(): a new
\* dict with the same entries
SeedStoredData(variables) == [stored_data |-> variables, shared |-> FALSE]

\* the entry of execute_workflow: stored_data is seeded from the variables
ExecuteWorkflow ==
  /\ Idle
  /\ runs < MaxRuns
  /\ \E w \in Workflows :
       LET seed == SeedStoredData(w.variables)
       IN  /\ cur' = w.name
           /\ stored_data' = seed.stored_data
           /\ workflow_config' = [doc |-> w, shared |-> seed.shared]
  /\ runs' = runs + 1
  /\ pc' = "starting"
  /\ tool_idx' = 1
  /\ frames' = <<>>
  /\ stdout' = NoneV
  /\ executed' = <<>>
  /\ entry_results' = results
  /\ twin' = NoTwin
  /\ last' = [op |-> "execute_workflow"]
  /\ UNCHANGED mgr_vars
  /\ UNCHANGED <<results, tool_mapping, verbose, looping>>

\* the loop over config.tools with the exception of start_server swallowed
AfterStartSwallow(raised) == "starting"

\* the loop over config.tools of execute_workflow has no try: an exception
\* of start_server leaves execute_workflow
AfterStart(raised) == IF raised = "none" THEN "starting" ELSE "aborted"

\* WorkflowExecutor._start_tool_server(tool_config), for the next tool of
\* config.tools; an exception of start_server leaves execute_workflow
StartToolServer ==
  /\ pc = "starting"
  /\ tool_idx <= Len(WorkflowNamed(cur).tools)
  /\ LET tool_config   == WorkflowNamed(cur).tools[tool_idx]
         server_type   == tool_config.server_type
         server_config == [server_type |-> server_type,
                           parameters |-> tool_config.parameters]
     IN  /\ tool_mapping' = Upd(tool_mapping, tool_config.name, server_type)
         /\ IF verbose
            THEN \E port \in PopChoices(servers, port_pool, server_type) :
                   LET r == StartServer(tool_definitions, servers, port_pool,
                                        next_instance, server_type, server_config, port)
                   IN  /\ servers' = r.servers
                       /\ port_pool' = r.port_pool
                       /\ next_instance' = r.next_instance
                       /\ pc' = AfterStart(r.raised)
                       /\ last' = [op |-> "start_tool_server", tool |-> server_type,
                                   called_start |-> TRUE, raised |-> r.raised,
                                   ret |-> r.ret]
            ELSE /\ UNCHANGED <<servers, port_pool, next_instance, pc>>
                 /\ last' = [op |-> "start_tool_server", tool |-> server_type,
                             called_start |-> FALSE, raised |-> "none", ret |-> 0]
  /\ tool_idx' = tool_idx + 1
  /\ UNCHANGED <<tool_definitions, results, stored_data, verbose, cur, frames,
                 stdout, runs, executed, entry_results, twin, workflow_config,
                 looping>>

\* the call _execute_steps(steps, ...) of execute_workflow
BeginSteps ==
  /\ pc = "starting"
  /\ tool_idx > Len(WorkflowNamed(cur).tools)
  /\ frames' = Unwind(<<Frame(WorkflowNamed(cur).workflow, "top", 1)>>)
  /\ pc' = IF frames' = <<>> THEN "returned" ELSE "steps"
  /\ last' = [op |-> "begin_steps"]
  /\ UNCHANGED mgr_vars
  /\ UNCHANGED <<results, stored_data, tool_mapping, verbose, cur, tool_idx,
                 stdout, runs, executed, entry_results, twin, workflow_config,
                 looping>>

\* the run forked at a failed TOOL step, after the step
TwinAfter(step, outcome, typed, fork, unrelated) ==
  IF twin.active
  THEN LET te == ExecuteStep(step, twin.results, twin.stored_data, tool_mapping,
                             servers, outcome, typed)
       IN  [active |-> TRUE, at |-> twin.at, results |-> te.results,
            stored_data |-> te.stored_data,
            tainted |-> IF unrelated THEN twin.tainted
                        ELSE twin.tainted \cup Writes(step)]
  ELSE IF fork
  THEN LET te == ToolStepReturn(step, results, stored_data, SuccessEnvelope, NoCall)
       IN  [active |-> TRUE, at |-> step.step, results |-> te.results,
            stored_data |-> te.stored_data,
            tainted |-> Writes(step) \cup {"results", "stored_data"}]
  ELSE twin

\* one iteration of the for loop of _execute_steps: _execute_step(step, ...)
\* on the step the run is at, and the returns that follow it
\* the caller's document after a step has written stored_data: the writes
\* are writes to doc.variables when the two are one dict
WrittenThrough(config, sd) ==
  IF config.shared THEN [config EXCEPT !.doc.variables = sd] ELSE config

ExecStep ==
  /\ pc = "steps"
  /\ LET step    == CurrentStep
         invokes == /\ step.type = "tool"
                    /\ step.tool \in DOMAIN tool_mapping
                    /\ CallToolMethod(servers, tool_mapping[step.tool], step.method,
                                      NoOutcome).raised = "none"
         prompts == step.type = "input" /\ step.output # ""
     IN  \E outcome \in (IF invokes THEN ToolOutcomes ELSE {NoOutcome}),
            typed \in (IF prompts THEN TypedInputs ELSE {NoTyped}),
            fork \in BOOLEAN :
           LET e == ExecuteStep(step, results, stored_data, tool_mapping, servers,
                                outcome, typed)
               failed_tool == step.type = "tool" /\ IsFailure(e.results[step.step])
               unrelated   == twin.active /\ Unrelated(step, twin.tainted)
           IN  /\ fork => (~twin.active /\ failed_tool)
               /\ results' = e.results
               /\ stored_data' = e.stored_data
               /\ stdout' = IF e.printed # NoneV THEN e.printed ELSE stdout
               /\ executed' = Append(executed, step.step)
               /\ frames' = IF e.raised # "none" THEN <<>>
                            ELSE AdvanceFrames(frames, step, e.ret)
               /\ pc' = IF e.raised # "none" THEN "aborted"
                        ELSE IF frames' = <<>> THEN "returned" ELSE "steps"
               /\ twin' = TwinAfter(step, outcome, typed, fork, unrelated)
               /\ workflow_config' = WrittenThrough(workflow_config, e.stored_data)
               /\ last' = [op |-> "step", step |-> step, before |-> results,
                           stored_before |-> stored_data,
                           outcome |-> outcome, call |-> e.call, ret |-> e.ret,
                           raised |-> e.raised, printed |-> e.printed,
                           prompted |-> prompts, typed |-> typed,
                           failed_tool |-> failed_tool, unrelated |-> unrelated]
  /\ UNCHANGED mgr_vars
  /\ UNCHANGED <<tool_mapping, verbose, cur, tool_idx, runs, entry_results, looping>>

(***************************************************************************)
(* Specifications                                                          *)
(***************************************************************************)
\* the executor, under a driver that registers tools, sets verbose and
\* calls execute_workflow
Next ==
  \/ RegisterToolCall
  \/ SetVerbose
  \/ ExecuteWorkflow
  \/ StartToolServer
  \/ BeginSteps
  \/ ExecStep

Spec == Init /\ [][Next]_vars

\* the registry and the manager, called in any order
NextMgr ==
  \/ RegisterToolCall
  \/ StartServerCall
  \/ StopServerCall
  \/ CallToolMethodCall

SpecMgr == Init /\ [][NextMgr]_vars

(***************************************************************************)
(* SimpleMustache and the steps that use it, over a set of templates and   *)
(* contexts                                                                *)
(***************************************************************************)
\* the values the variable a has in the contexts
AValues ==
  {IntV(0), IntV(1), FloatV(0), StrV(<<>>), StrV(<<"no">>), StrV(<<"False">>),
   StrV(<<"0">>), StrV(<<"yes">>), ListV(<<>>), ListV(<<IntV(1)>>),
   DictV(EmptyMap), DictV("b" :> DictV("c" :> IntV(5))),
   BoolV(TRUE), BoolV(FALSE), NoneV}

\* the values the variable k has in the contexts
KValues ==
  {IntV(5), StrV(<<"EUR/USD">>), DictV("a" :> IntV(1) @@ "b" :> IntV(2)),
   ListV(<<IntV(1), IntV(2)>>)}

\* the variables of a workflow, as execute_workflow copies them into
\* stored_data: k and b always, a with one of its values or not at all
MustacheContexts ==
  {("a" :> va) @@ ("k" :> vk) @@ ("b" :> IntV(2)) : va \in AValues, vk \in KValues}
    \cup {("k" :> vk) @@ ("b" :> IntV(2)) : vk \in KValues}

\* templates: a message of a PRINT step, an input of a TOOL step, an
\* argument of render
MustacheTemplates ==
  {<<"{{", "k", "}}">>,
   <<"{{", " ", "k", " ", "}}">>,
   <<"{{", "$", "k", "}}">>,
   <<"{{", "a", "}}">>,
   <<"{{", "a", ".", "b", ".", "c", "}}">>,
   <<"{{", "missing", "}}">>,
   <<"{{", "a", "}}", "-", "{{", "b", "}}">>,
   <<"k=", "{{", "k", "}}", ";">>,
   <<"x", "{{", "a", ".", "b", ".", "z", "}}", "y">>,
   <<"{{", "#", "a", "}}", "X", "{{", "/", "a", "}}">>,
   <<"pre", "{{", "#", "a", "}}", "X", "{{", "/", "a", "}}", "post">>,
   <<"{{", "#", "a", ".", "b", "}}", "X", "{{", "/", "a", ".", "b", "}}">>,
   <<"a", "}}", "b">>,
   <<"plain">>,
   <<>>}

\* paths given to _get_value
MustacheKeys ==
  {<<"a">>, <<"a", ".", "b">>, <<"a", ".", "b", ".", "c">>,
   <<"a", ".", "b", ".", "z">>, <<"k", ".", "a">>, <<"k", ".", "a", ".", "x">>,
   <<"missing">>, <<"$", "k">>, <<>>}

\* an executor inside execute_workflow, before the first step: the
\* variables are in stored_data and the tool fx of the workflow is running
InitMustache ==
  LET defs    == RegisterTool(EmptyMap, [name |-> "quote", cls |-> "ok"])
      started == StartServer(defs, EmptyMap, Ports, 1, "quote",
                             [server_type |-> "quote", parameters |-> "p1"], PortBase)
  IN  /\ tool_definitions = defs
      /\ servers = started.servers
      /\ port_pool = started.port_pool
      /\ next_instance = started.next_instance
      /\ last = [op |-> "init"]
      /\ results = EmptyMap
      /\ stored_data \in MustacheContexts
      /\ tool_mapping = ("fx" :> "quote")
      /\ verbose = TRUE
      /\ pc = "steps"
      /\ cur = ""
      /\ tool_idx = 1
      /\ frames = <<>>
      /\ stdout = NoneV
      /\ runs = 1
      /\ executed = <<>>
      /\ entry_results = EmptyMap
      /\ twin = NoTwin
      /\ workflow_config = [doc |-> [variables |-> stored_data], shared |-> FALSE]
      /\ looping = {}

\* no call has been made yet on this executor: each behaviour makes one
Fresh == last.op = "init"

\* SimpleMustache.render(template, context) called on the variables
RenderCall ==
  /\ Fresh
  /\ \E template \in MustacheTemplates :
       last' = [op |-> "render", template |-> template,
                context |-> DictV(stored_data),
                ret |-> StrV(Render(template, DictV(stored_data)))]
  /\ UNCHANGED mgr_vars
  /\ UNCHANGED exec_vars

\* SimpleMustache._get_value(key, context) called on the variables
GetValueCall ==
  /\ Fresh
  /\ \E key \in MustacheKeys :
       last' = [op |-> "get_value", key |-> key,
                context |-> DictV(stored_data),
                ret |-> GetValue(key, DictV(stored_data))]
  /\ UNCHANGED mgr_vars
  /\ UNCHANGED exec_vars

\* _execute_step on the step the template is written in
MustacheStep(step, outcome) ==
  LET e == ExecuteStep(step, results, stored_data, tool_mapping, servers,
                       outcome, NoTyped)
  IN  /\ results' = e.results
      /\ stored_data' = e.stored_data
      /\ stdout' = IF e.printed # NoneV THEN e.printed ELSE stdout
      /\ last' = [op |-> "step", step |-> step,
                  context |-> BuildFullContext(results, stored_data),
                  outcome |-> outcome, call |-> e.call, ret |-> e.ret,
                  raised |-> e.raised, printed |-> e.printed]
      /\ UNCHANGED mgr_vars
      /\ workflow_config' = WrittenThrough(workflow_config, e.stored_data)
      /\ UNCHANGED <<tool_mapping, verbose, pc, cur, tool_idx, frames, runs,
                     executed, entry_results, twin, looping>>

\* a TOOL step with the template as its input symbol
ToolStepCall ==
  /\ Fresh
  /\ \E template \in MustacheTemplates, outcome \in ToolOutcomes :
       MustacheStep(ToolStep("t", "fx", "fetch_data", ("symbol" :> StrV(template)),
                             "", ""),
                    outcome)

\* a PRINT step with the template as its message
PrintStepCall ==
  /\ Fresh
  /\ \E template \in MustacheTemplates :
       MustacheStep(PrintStep("p", template), NoOutcome)

NextMustache ==
  \/ RenderCall
  \/ GetValueCall
  \/ ToolStepCall
  \/ PrintStepCall

SpecMustache == InitMustache /\ [][NextMustache]_vars

(***************************************************************************)
(* execute_workflow next to the server threads, under fair scheduling      *)
(***************************************************************************)
\* a driver has registered every tool type and has not yet run a workflow
InitLive ==
  /\ tool_definitions = [t \in ToolTypes |-> [name |-> t, cls |-> "ok"]]
  /\ servers = EmptyMap
  /\ port_pool = Ports
  /\ next_instance = 1
  /\ last = [op |-> "init"]
  /\ results = EmptyMap
  /\ stored_data = EmptyMap
  /\ tool_mapping = EmptyMap
  /\ verbose = TRUE
  /\ pc = "idle"
  /\ cur = ""
  /\ tool_idx = 0
  /\ frames = <<>>
  /\ stdout = NoneV
  /\ runs = 0
  /\ executed = <<>>
  /\ entry_results = EmptyMap
  /\ twin = NoTwin
  /\ workflow_config = NoConfig
  /\ looping = {}

\* ServerManager._run_server in the daemon thread start_server made for an
\* instance: the thread enters `while True: time.sleep(1)`; the iterations
\* of that loop change nothing.  Nothing stops the thread, stop_server
\* included.
RunServer ==
  /\ \E id \in (1..(next_instance - 1)) \ looping : looping' = looping \cup {id}
  /\ UNCHANGED <<tool_definitions, servers, port_pool, next_instance, last>>
  /\ UNCHANGED <<results, stored_data, tool_mapping, verbose, pc, cur, tool_idx,
                 frames, stdout, runs, executed, entry_results, twin,
                 workflow_config>>

\* the step ExecStep takes, told by what it does to executed: of the actions
\* of NextLive only ExecStep appends to executed, it does so whenever
\* pc = "steps", and it appends the name of the current step
StepTaken ==
  /\ pc = "steps"
  /\ executed' = Append(executed, CurrentStep.step)

NextLive ==
  \/ ExecuteWorkflow
  \/ StartToolServer
  \/ BeginSteps
  \/ ExecStep
  \/ RunServer

\* the thread of execute_workflow takes its next step whenever it has one
\* (every tool call and every prompt returns); the server threads run or
\* not as the scheduler has it
SpecLive ==
  /\ InitLive
  /\ [][NextLive]_vars
  /\ WF_vars(StartToolServer)
  /\ WF_vars(BeginSteps)
  /\ WF_executed(StepTaken)

(***************************************************************************)
(* Properties of the server manager                                        *)
(***************************************************************************)
\* the ports held by running instances
HeldPorts(srv) == {srv[t].port : t \in DOMAIN srv}

\* the registry can construct an instance of tool_name
Loadable(defs, tool_name) == LoadToolClass(defs, tool_name).raised = "none"

\* C8: start on a tool type that already has a running instance returns the
\* identifier that instance holds, raises nothing, and leaves the running
\* instances (instance, identifier and configuration of each), the pool and
\* the instance counter as they were, whatever configuration it is given.
C8_StartIsIdempotent ==
  [][(last'.op = "start" /\ last'.tool \in DOMAIN servers)
       => /\ last'.raised = "none"
          /\ last'.ret = servers[last'.tool].port
          /\ servers' = servers
          /\ port_pool' = port_pool
          /\ next_instance' = next_instance]_vars

\* a start on a running type, with a configuration other than the one the
\* instance was started with, has returned
C8_Witness ==
  /\ last.op = "start"
  /\ last.was_running
  /\ last.tool \in DOMAIN servers
  /\ last.config # servers[last.tool].config
  /\ last.ret = servers[last.tool].port

\* C9: start on a tool type that is not running fails with RuntimeError
\* ("no port available") exactly when the pool is empty, and the failing call
\* changes nothing; with a free identifier, a start of a tool the registry
\* can construct succeeds and takes exactly one identifier out of the pool.
\* While every identifier is either free or held, the pool is empty exactly
\* when PoolSize distinct types are running: the first PoolSize distinct
\* starts succeed and the next one fails.
C9_PoolExhaustion ==
  [][(last'.op = "start" /\ last'.tool \notin DOMAIN servers)
       => /\ (last'.raised = "RuntimeError") <=> (port_pool = {})
          /\ last'.raised = "RuntimeError"
               => /\ servers' = servers
                  /\ port_pool' = port_pool
                  /\ next_instance' = next_instance
          /\ (port_pool # {} /\ Loadable(tool_definitions, last'.tool))
               => /\ last'.raised = "none"
                  /\ DOMAIN servers' = DOMAIN servers \cup {last'.tool}
                  /\ last'.ret \in port_pool
                  /\ servers'[last'.tool].port = last'.ret
                  /\ port_pool' = port_pool \ {last'.ret}
                  /\ \A t \in DOMAIN servers : servers'[t] = servers[t]
          /\ (port_pool \cup HeldPorts(servers) = Ports)
               => ((last'.raised = "RuntimeError")
                     <=> (Cardinality(DOMAIN servers) = PoolSize))]_vars

\* PoolSize distinct types are running and a start of one more type, which
\* the registry can construct, has failed with RuntimeError
C9_Witness ==
  /\ last.op = "start"
  /\ ~last.was_running
  /\ last.raised = "RuntimeError"
  /\ Cardinality(DOMAIN servers) = PoolSize
  /\ last.tool \notin DOMAIN servers
  /\ Loadable(tool_definitions, last.tool)

\* C10: stop on a running type removes its handle, puts exactly its
\* identifier back into the pool and leaves every other instance alone; a call
\* on a type that is not running fails with "server not running" and invokes
\* nothing; a start that follows the stop, for a tool the registry can
\* construct, succeeds with a newly constructed instance.  stop on a type
\* that is not running changes nothing and raises nothing.
C10_StopReleases ==
  [][/\ (last'.op = "stop" /\ last'.tool \in DOMAIN servers)
          => /\ servers' = Remove(servers, last'.tool)
             /\ servers[last'.tool].port \notin port_pool
             /\ port_pool' = port_pool \cup {servers[last'.tool].port}
             /\ last'.raised = "none"
     /\ (last'.op = "stop" /\ last'.tool \notin DOMAIN servers)
          => /\ servers' = servers
             /\ port_pool' = port_pool
             /\ last'.raised = "none"
     /\ (last'.op = "call" /\ (last'.after_stop \/ last'.tool \notin DOMAIN servers))
          => /\ last'.raised = "ValueError"
             /\ last'.error = <<"server not running: ", last'.tool>>
             /\ last'.invoked = 0
     /\ (last'.op = "start" /\ last'.after_stop
           /\ Loadable(tool_definitions, last'.tool))
          => /\ last'.raised = "none"
             /\ last'.tool \in DOMAIN servers'
             /\ servers'[last'.tool].instance.id = next_instance
             /\ servers'[last'.tool].instance.id # last.handle.instance.id
             /\ \A t \in DOMAIN servers :
                  servers[t].instance.id # servers'[last'.tool].instance.id]_vars

\* with the pool exhausted before the stop, the start that follows the stop
\* has succeeded with a new instance
C10_Witness ==
  /\ last.op = "start"
  /\ last.after_stop
  /\ last.raised = "none"
  /\ Cardinality(last.pool_before) = 1
  /\ Cardinality(DOMAIN servers) = PoolSize

(***************************************************************************)
(* Properties of the executor                                              *)
(***************************************************************************)
\* the workflow execute_workflow was last called with
Workflow == WorkflowNamed(cur)

\* the last action was a TOOL step whose tool method was invoked and
\* returned an envelope
ToolReturned ==
  /\ last.op = "step"
  /\ last.step.type = "tool"
  /\ last.call.made
  /\ last.call.invoked # 0
  /\ last.outcome.kind = "return"

\* the envelope carries success = true
EnvelopeSucceeded(env) ==
  env.k = "dict" /\ "success" \in DOMAIN env.d /\ env.d["success"] = BoolV(TRUE)

C6_ToolsStartedBeforeSteps ==
  (pc = "steps" /\ executed = <<>>)
    => \A i \in 1..Len(Workflow.tools) :
         Workflow.tools[i].server_type \in DOMAIN servers

\* C7: RuntimeError ("no port available") is raised only by the start of a
\* tool in the startup loop of execute_workflow: a step raises no such error
\* and leaves the manager alone.  When it is raised the call is over: no step
\* has executed, results is what it was at entry, and nothing executes until
\* execute_workflow is called again.
C7_ExhaustionOnlyAtStartup ==
  [][/\ (last'.op = "start_tool_server" /\ last'.raised = "RuntimeError")
          => /\ pc' = "aborted"
             /\ executed' = <<>>
             /\ results' = entry_results'
             /\ results' = results
     /\ last'.op = "step"
          => /\ last'.raised # "RuntimeError"
             /\ servers' = servers
             /\ port_pool' = port_pool
             /\ next_instance' = next_instance
     /\ pc = "aborted"
          => /\ results' = results
             /\ last'.op # "step"
             /\ pc' = "aborted" \/ last'.op = "execute_workflow"]_vars

\* the pool is exhausted by the tools a workflow declares and the start of
\* the next one has ended the run
C7_Witness ==
  /\ last.op = "start_tool_server"
  /\ last.raised = "RuntimeError"
  /\ Cardinality(DOMAIN servers) = PoolSize
  /\ port_pool = {}
  /\ pc = "aborted"

RECURSIVE Repeat(_, _)
\* s, n times over
Repeat(s, n) == IF n <= 0 THEN <<>> ELSE s \o Repeat(s, n - 1)

RECURSIVE DeclaredOrder(_)
\* the step names of a step list in declared order: each step once, a LOOP
\* step followed by its body as often as it iterates, one iteration after
\* the other
DeclaredOrder(steps) ==
  IF steps = <<>> THEN <<>>
  ELSE LET step == Head(steps)
       IN  <<step.step>>
             \o (IF step.type = "loop"
                 THEN Repeat(DeclaredOrder(step.config.steps), step.config.times)
                 ELSE <<>>)
             \o DeclaredOrder(Tail(steps))

IsPrefix(a, b) == Len(a) <= Len(b) /\ SubSeq(b, 1, Len(a)) = a

\* how often name occurs in s
Count(s, name) == Cardinality({i \in 1..Len(s) : s[i] = name})

\* C2: the steps a run has executed so far are an initial part of the
\* workflow's steps in declared order (loop bodies in their declared order,
\* iteration after iteration), and are all of them when execute_workflow
\* returns, each top-level step exactly once; a step begins on the results
\* and stored_data its predecessor left, and is the one next in that order.
C2_DeclaredOrder ==
  [][/\ cur' # ""
          => /\ IsPrefix(executed', DeclaredOrder(WorkflowNamed(cur').workflow))
             /\ pc' = "returned"
                  => /\ executed' = DeclaredOrder(WorkflowNamed(cur').workflow)
                     /\ \A i \in 1..Len(WorkflowNamed(cur').workflow) :
                          Count(executed', WorkflowNamed(cur').workflow[i].step) = 1
     /\ last'.op = "step"
          => /\ last'.before = results
             /\ last'.stored_before = stored_data
             /\ executed' = Append(executed, last'.step.step)
             /\ Len(executed') <= Len(DeclaredOrder(Workflow.workflow))
             /\ last'.step.step = DeclaredOrder(Workflow.workflow)[Len(executed')]]_vars

\* a workflow with a loop of LoopTimes iterations has returned
C2_Witness ==
  /\ pc = "returned"
  /\ cur = "loop_flow"
  /\ executed = DeclaredOrder(LoopFlow.workflow)
  /\ Count(executed, "tick") = LoopTimes
  /\ Count(executed, "again") = 1

\* the error message a failing TOOL step records, from what happened
ToolFailure(step, outcome) ==
  IF step.tool \notin DOMAIN tool_mapping
  THEN [failed |-> TRUE, error |-> StrV(<<"tool not found: ", step.tool>>)]
  ELSE IF tool_mapping[step.tool] \notin DOMAIN servers
  THEN [failed |-> TRUE,
        error |-> StrV(<<"server not running: ", tool_mapping[step.tool]>>)]
  ELSE IF outcome.kind = "raise"
  THEN [failed |-> TRUE, error |-> outcome.value]
  ELSE IF outcome.kind = "return" /\ ~EnvelopeSucceeded(outcome.value)
  THEN [failed |-> TRUE,
        error |-> Get(outcome.value.d, "error", StrV(<<"unknown error">>))]
  ELSE [failed |-> FALSE, error |-> NoneV]

\* C1: a TOOL step S whose tool returned an envelope without success = true,
\* whose tool method raised, or whose tool was never started records
\* results[S] = {success: false, error: message} and raises nothing, so the
\* run goes on: only an INPUT step ends a run with an exception, and a run
\* in which a TOOL step failed returns with every step of the workflow
\* executed.  A later step that mentions nothing written by S, or by a step
\* that read what S wrote, records the entry it records in the run in which
\* S succeeded.
C1_ToolFailureIsolated ==
  /\ (last.op = "step" /\ last.step.type = "tool"
        /\ ToolFailure(last.step, last.outcome).failed)
       => /\ results[last.step.step]
               = Fail(ToolFailure(last.step, last.outcome).error)
          /\ last.failed_tool
          /\ last.raised = "none"
          /\ pc \in {"steps", "returned"}
  /\ (last.op = "step" /\ pc = "aborted") => last.step.type = "input"
  /\ (twin.active /\ pc = "returned")
       => /\ executed = DeclaredOrder(Workflow.workflow)
          /\ Count(executed, twin.at) >= 1
  /\ (last.op = "step" /\ last.unrelated)
       => LET name == last.step.step
          IN  /\ name \in DOMAIN results <=> name \in DOMAIN twin.results
              /\ name \in DOMAIN results => results[name] = twin.results[name]

\* a TOOL step failed, the run went on to its end, and the last step, which
\* reads nothing of the failed step, recorded what it records in the run in
\* which the step succeeded, while the two runs differ on the failed step
C1_Witness ==
  /\ twin.active
  /\ pc = "returned"
  /\ last.op = "step"
  /\ last.unrelated
  /\ last.step.step # twin.at
  /\ IsFailure(results[twin.at])
  /\ ~IsFailure(twin.results[twin.at])
  /\ results[last.step.step] = twin.results[last.step.step]

\* the names of the TOOL steps of a step list, loop bodies included
RECURSIVE ToolSteps(_)
ToolSteps(steps) ==
  IF steps = <<>> THEN {}
  ELSE LET step == Head(steps)
       IN  (IF step.type = "tool" THEN {step} ELSE {})
             \cup (IF step.type = "loop" THEN ToolSteps(step.config.steps) ELSE {})
             \cup ToolSteps(Tail(steps))

\* s[i..i+4] is the reference "{{name.key}}"
RefAt(s, i, name, key) ==
  /\ i + 4 <= Len(s)
  /\ SubSeq(s, i, i + 4) = <<"{{", name, ".", key, "}}">>

\* the only interpolation of s is at i
OnlyRef(s, i) == \A j \in 1..Len(s) : s[j] = "{{" => j = i

\* the entry records a success with a payload that has the key
SucceededWith(res, name, key) ==
  /\ name \in DOMAIN res
  /\ res[name].d["success"] = BoolV(TRUE)
  /\ res[name].d["result"].k = "dict"
  /\ key \in DOMAIN res[name].d["result"].d

\* the keys of the payload a tool returns on success
PayloadKeys == DOMAIN SuccessEnvelope.d \ {"success"}

\* C3: once a TOOL step S of the workflow has succeeded with a payload that
\* has key k, (1) a TOOL input that is "{{v}}" for a workflow variable v is
\* dispatched as the value v has, and (2) a PRINT step whose message refers
\* to "{{S.k}}" prints the message with the reference replaced by the string
\* form of payload[k], and records a success carrying that text.
C3_ScenarioA ==
  (last.op = "step"
     /\ \E S \in ToolSteps(Workflow.workflow), k \in PayloadKeys :
          SucceededWith(last.before, S.step, k))
    => /\ (last.step.type = "tool" /\ last.call.made)
            => \A key \in DOMAIN last.step.inputs :
                 \A v \in DOMAIN Workflow.variables :
                   last.step.inputs[key] = StrV(<<"{{", v, "}}">>)
                     => last.call.kwargs[key] = last.stored_before[v]
       /\ last.step.type = "print"
            => \A S \in ToolSteps(Workflow.workflow), k \in PayloadKeys :
                 \A i \in 1..Len(last.step.config.message) :
                   LET message == last.step.config.message
                   IN  (/\ RefAt(message, i, S.step, k)
                        /\ OnlyRef(message, i)
                        /\ SucceededWith(last.before, S.step, k))
                         => LET text == SubSeq(message, 1, i - 1)
                                         \o StrOf(last.before[S.step].d["result"].d[k])
                                         \o SubSeq(message, i + 5, Len(message))
                            IN  /\ last.printed = StrV(text)
                                /\ stdout = StrV(text)
                                /\ results[last.step.step] = Succ(StrV(text))

\* C4: once a TOOL step S has failed (results[S] is a failure entry), a
\* reference to S's payload by step name or by the alias S declares is left
\* as the literal "{{...}}" text in the message a PRINT step prints and in
\* the input a TOOL step dispatches, and the step ends without an exception.
C4_ScenarioB ==
  last.op = "step"
    => \A S \in ToolSteps(Workflow.workflow) :
         (S.step \in DOMAIN last.before /\ IsFailure(last.before[S.step]))
           => \A name \in {S.step, StoreVar(S)} \ {""}, k \in PayloadKeys :
                /\ last.raised = "none"
                /\ last.step.type = "print"
                     => \A i \in 1..Len(last.step.config.message) :
                          (/\ RefAt(last.step.config.message, i, name, k)
                           /\ OnlyRef(last.step.config.message, i))
                            => last.printed = StrV(last.step.config.message)
                /\ (last.step.type = "tool" /\ last.call.made)
                     => \A key \in DOMAIN last.step.inputs :
                          (/\ last.step.inputs[key].k = "str"
                           /\ \E i \in 1..Len(last.step.inputs[key].s) :
                                /\ RefAt(last.step.inputs[key].s, i, name, k)
                                /\ OnlyRef(last.step.inputs[key].s, i))
                            => last.call.kwargs[key] = last.step.inputs[key]

(***************************************************************************)
(* Properties of call_tool_method                                          *)
(***************************************************************************)
\* C11: a call on a type with no running instance fails with "server not
\* running"; a call of a name that is no callable of the running instance
\* fails with "no such tool method"; any other call invokes the method of
\* the running instance once and returns the value the method returned; the
\* running instances and the pool are the same after each of them.
C11_CallMethod ==
  [][last'.op = "call"
       => LET t        == last'.tool
              running  == t \in DOMAIN servers
              callable == running /\ last'.method \in ToolMethods[servers[t].instance.cls]
          IN  /\ ~running
                   => /\ last'.raised = "ValueError"
                      /\ last'.error = <<"server not running: ", t>>
                      /\ last'.invoked = 0
              /\ (running /\ ~callable)
                   => /\ last'.raised = "ValueError"
                      /\ last'.error = <<"no such tool method: ", t, ".", last'.method>>
                      /\ last'.invoked = 0
              /\ (callable /\ last'.outcome.kind = "return")
                   => /\ last'.raised = "none"
                      /\ last'.ret = last'.outcome.value
                      /\ last'.invoked = servers[t].instance.id
              /\ servers' = servers
              /\ port_pool' = port_pool]_vars

\* C12: the handle table holds one instance per running tool type, and
\* distinct types hold distinct instances.  A type starts running only by a
\* start of that type, with an instance constructed by that start; it stops
\* running only by a stop of that type; while it runs its instance is never
\* replaced; and a call that invokes a method invokes it on that instance.
C12_OneInstancePerType ==
  [][/\ \A t1, t2 \in DOMAIN servers' :
          servers'[t1].instance.id = servers'[t2].instance.id => t1 = t2
     /\ \A t \in DOMAIN servers' :
          /\ t \in DOMAIN servers => servers'[t].instance = servers[t].instance
          /\ t \notin DOMAIN servers
               => /\ last'.op = "start"
                  /\ last'.tool = t
                  /\ last'.raised = "none"
                  /\ servers'[t].instance.id = next_instance
                  /\ next_instance' = next_instance + 1
                  /\ servers'[t].instance.cls = t
     /\ \A t \in DOMAIN servers :
          t \notin DOMAIN servers' => (last'.op = "stop" /\ last'.tool = t)
     /\ (last'.op = "call" /\ last'.invoked # 0)
          => /\ last'.tool \in DOMAIN servers
             /\ last'.invoked = servers[last'.tool].instance.id
             /\ servers' = servers]_vars

\* two types run, one of them on the instance of its second start, and a
\* call has been dispatched to that instance
C12_Witness ==
  /\ last.op = "call"
  /\ last.tool \in DOMAIN servers
  /\ last.invoked = servers[last.tool].instance.id
  /\ Cardinality(DOMAIN servers) = 2
  /\ last.invoked = MaxInstances
  /\ next_instance = MaxInstances + 1

(***************************************************************************)
(* Properties of INPUT steps                                               *)
(***************************************************************************)
\* C13: an INPUT step whose output variable is among the provided
\* parameters, in a run that does not force interactive input, issues no
\* prompt, leaves the provided value under the output variable in
\* stored_data, and records a success.
C13_ProvidedInputAccepted ==
  (/\ last.op = "step"
   /\ last.step.type = "input"
   /\ last.step.output \in DOMAIN ProvidedParams(Workflow)
   /\ ~InteractiveMode(Workflow))
    => /\ ~last.prompted
       /\ stored_data[last.step.output] = ProvidedParams(Workflow)[last.step.output]
       /\ results[last.step.step].d["success"] = BoolV(TRUE)

\* the lines the user gives at successive prompts of the last INPUT step
Attempts == <<Strip(last.typed.line)>> \o last.typed.more

\* the value an accepted line is stored as
Coerced(line, config) ==
  LET v == ValidateInput(line, config)
  IN  IF v.value # NoneV THEN v.value ELSE StrV(line)

\* C14: an INPUT step that prompts asks again after a line that fails
\* validation, and the first valid line the user gives is coerced, stored
\* under the output variable and recorded as a success; with {type: integer,
\* min: 1, max: 5} and the lines "abc", "9", "3" the first is a format error,
\* the second a range error, and IntV(3) is stored.
C14_RetryUntilValid ==
  (/\ last.op = "step"
   /\ last.step.type = "input"
   /\ last.prompted
   /\ last.typed.kind = "line")
    => LET config == last.step.config
           valid  == {i \in 1..Len(Attempts) : ValidateInput(Attempts[i], config).ok}
       IN  valid # {}
             => LET value == Coerced(Attempts[MinOf(valid)], config)
                IN  /\ results[last.step.step] = Succ(value)
                    /\ stored_data[last.step.output] = value

\* the line _execute_input_step validates: the typed line, or the default
UserInput(step, typed) ==
  LET default_value == Get(step.config, "default", StrV(<<>>))
      line          == Strip(typed.line)
  IN  IF line = <<>> /\ PyTruthy(default_value) THEN default_value.s ELSE line

\* the INPUT steps of a step list, loop bodies included
RECURSIVE InputSteps(_)
InputSteps(steps) ==
  IF steps = <<>> THEN {}
  ELSE LET step == Head(steps)
       IN  (IF step.type = "input" THEN {step} ELSE {})
             \cup (IF step.type = "loop" THEN InputSteps(step.config.steps) ELSE {})
             \cup InputSteps(Tail(steps))

\* C15: an INPUT step whose line is rejected by the validator records
\* results[step] = {success: false, error}, writes nothing into stored_data
\* (the output variable keeps the value it had, or stays absent), raises
\* nothing and returns absent, so the run goes on: a run in which an INPUT
\* step was rejected returns with every step of the workflow executed.
C15_ValidationFailureIsLocal ==
  /\ (/\ last.op = "step"
      /\ last.step.type = "input"
      /\ last.prompted
      /\ last.typed.kind = "line"
      /\ ~ValidateInput(UserInput(last.step, last.typed), last.step.config).ok)
       => /\ results[last.step.step]
               = Fail(StrV(<<"input validation failed: ">>
                           \o ValidateInput(UserInput(last.step, last.typed),
                                            last.step.config).error))
          /\ stored_data = last.stored_before
          /\ last.raised = "none"
          /\ last.ret = NoneV
          /\ pc \in {"steps", "returned"}
  /\ (/\ pc = "returned"
      /\ \E S \in InputSteps(Workflow.workflow) :
           S.step \in DOMAIN results /\ IsFailure(results[S.step]))
       => executed = DeclaredOrder(Workflow.workflow)

\* "9" was rejected by {type: integer, min: 1, max: 5}, nothing was stored,
\* and the PRINT step after the INPUT step has run
C15_Witness ==
  /\ pc = "returned"
  /\ cur = "input_flow"
  /\ executed = <<"ask", "got">>
  /\ last.step.step = "got"
  /\ results["ask"] = Fail(StrV(<<"input validation failed: ", "above maximum">>))
  /\ "count" \notin DOMAIN stored_data

\* C16: a step ends execute_workflow with an exception exactly when it is
\* an INPUT step at whose prompt the user cancels (KeyboardInterrupt).  That
\* step records {success: false, error: "input cancelled by user"} and
\* changes nothing else, and after it no step executes, neither the rest of
\* the list nor the remaining iterations of a loop around it, until
\* execute_workflow is called again.
C16_CancelAborts ==
  [][/\ last'.op = "step"
          => /\ (pc' = "aborted") <=> (last'.typed.kind = "KeyboardInterrupt")
             /\ (last'.raised # "none") <=> (last'.typed.kind = "KeyboardInterrupt")
             /\ last'.typed.kind = "KeyboardInterrupt"
                  => /\ last'.step.type = "input"
                     /\ last'.raised = "KeyboardInterrupt"
                     /\ results' = Upd(results, last'.step.step,
                                       Fail(StrV(<<"input cancelled by user">>)))
                     /\ stored_data' = stored_data
                     /\ frames' = <<>>
     /\ pc = "aborted"
          => /\ last'.op # "step"
             /\ executed' = executed \/ last'.op = "execute_workflow"
             /\ results' = results]_vars

\* the user cancelled in the first iteration of a loop: the second iteration
\* and the step after the loop were not executed
C16_Witness ==
  /\ pc = "aborted"
  /\ last.op = "step"
  /\ last.typed.kind = "KeyboardInterrupt"
  /\ cur = "provided_flow"
  /\ executed = <<"twice", "ask">>
  /\ Len(executed) < Len(DeclaredOrder(Workflow.workflow))
  /\ IsFailure(results["ask"])

(***************************************************************************)
(* Properties of template rendering                                        *)
(***************************************************************************)
\* the template is one interpolation expression and nothing else
SingleInterpolation(t) ==
  /\ Len(t) >= 3
  /\ t[1] = "{{"
  /\ t[Len(t)] = "}}"
  /\ \A i \in 2..(Len(t) - 1) : t[i] \notin {"{{", "}}"}
  /\ Strip(Slice(t, 2, Len(t) - 1)) # <<>>
  /\ Head(Strip(Slice(t, 2, Len(t) - 1))) \notin {"#", "^", "/"}

\* the path of a single interpolation
PathOf(t) == Strip(Slice(t, 2, Len(t) - 1))

\* a mapping or a sequence as it is, a scalar as its string form
WholeValue(v) == IF v.k \in {"dict", "list"} THEN v ELSE StrV(StrOf(v))

\* the inputs of the last TOOL step that are strings
StringInputs ==
  IF last.op = "step" /\ last.step.type = "tool" /\ last.call.made
  THEN {key \in DOMAIN last.step.inputs : last.step.inputs[key].k = "str"}
  ELSE {}

\* C17: render of a template that is exactly one interpolation whose path
\* resolves returns the resolved value itself when it is a mapping or a
\* sequence and its string form when it is a scalar, and a TOOL input that
\* is such a template is dispatched as that same value.
C17_WholeValueSubstitution ==
  /\ (/\ last.op = "render"
      /\ SingleInterpolation(last.template)
      /\ GetValue(PathOf(last.template), last.context) # NoneV)
       => last.ret = WholeValue(GetValue(PathOf(last.template), last.context))
  /\ \A key \in StringInputs :
       LET t == last.step.inputs[key].s
       IN  (/\ SingleInterpolation(t)
            /\ GetValue(PathOf(t), last.context) # NoneV)
             => last.call.kwargs[key] = WholeValue(GetValue(PathOf(t), last.context))

\* the template has an interpolation expression
HasInterpolation(t) ==
  \E i \in 1..Len(t), j \in 1..Len(t) : i < j /\ t[i] = "{{" /\ t[j] = "}}"

\* the template has a section tag
HasSection(t) ==
  \E i \in 1..(Len(t) - 1) : t[i] = "{{" /\ t[i + 1] \in {"#", "^", "/"}

\* the template mixes literal text and interpolations, or has several
\* interpolations
MixedTemplate(t) ==
  HasInterpolation(t) /\ ~SingleInterpolation(t) /\ ~HasSection(t)

\* C18: a TOOL input that mixes literal text with interpolations, or holds
\* several interpolations, is passed to call_tool_method as the string in
\* which every interpolation whose path resolves is replaced by the string
\* form of its value; "{{a}}-{{b}}" with a = 1 and b = 2 is passed as "1-2".
C18_MixedInputsSubstituted ==
  \A key \in StringInputs :
    LET t == last.step.inputs[key].s
    IN  MixedTemplate(t)
          => last.call.kwargs[key] = StrV(RenderVariables(t, last.context))

\* truthy: not None, boolean true, a number other than zero, a string or a
\* collection that is not empty
Truthy(v) ==
  CASE v.k = "none"  -> FALSE
    [] v.k = "bool"  -> v.b
    [] v.k = "int"   -> v.n # 0
    [] v.k = "float" -> v.h # 0
    [] v.k = "str"   -> v.s # <<>>
    [] v.k = "dict"  -> DOMAIN v.d # {}
    [] v.k = "list"  -> v.items # <<>>

\* the template pre{{#path}}block{{/path}}post
Section(pre, path, block, post) ==
  pre \o <<"{{", "#">> \o path \o <<"}}">> \o block \o <<"{{", "/">> \o path
      \o <<"}}">> \o post

\* C19: render replaces a section {{#path}}block{{/path}} by block when the
\* value at path is truthy and by the empty string otherwise, the text
\* around the section staying as it is; every non-empty string is truthy.
C19_SectionTruthiness ==
  \A pre \in {<<>>, <<"pre">>}, post \in {<<>>, <<"post">>},
     path \in {<<"a">>, <<"a", ".", "b">>}, block \in {<<"X">>} :
    (last.op = "render" /\ last.template = Section(pre, path, block, post))
      => last.ret = StrV(pre \o (IF Truthy(GetValue(path, last.context))
                                 THEN block ELSE <<>>) \o post)

\* the segments of a path whose segments are one token each
Segments(key) == SelectSeq(key, LAMBDA tok : tok # ".")

RECURSIVE Descend(_, _)
\* the value reached from v along the segments: a set with that value, or
\* the empty set when a segment is missing or a value on the way is not a
\* mapping
Descend(segs, v) ==
  IF segs = <<>> THEN {v}
  ELSE IF v.k = "dict" /\ Head(segs) \in DOMAIN v.d
  THEN Descend(Tail(segs), v.d[Head(segs)])
  ELSE {}

\* the interpolation expressions of a template: <<i, j>> with t[i] the "{{"
\* and t[j] the first "}}" after it
Interpolations(t) ==
  {ij \in (1..Len(t)) \X (1..Len(t)) :
     /\ ij[1] < ij[2]
     /\ t[ij[1]] = "{{"
     /\ t[ij[2]] = "}}"
     /\ \A m \in (ij[1] + 1)..(ij[2] - 1) : t[m] \notin {"{{", "}}"}}

\* no interpolation of the template resolves in the context
AllUnresolved(t, context) ==
  \A ij \in Interpolations(t) :
    GetValue(Strip(Slice(t, ij[1] + 1, ij[2] - 1)), context) = NoneV

\* C20: _get_value returns the value at the end of the path when every
\* segment exists and None otherwise ("a.b.c" on {a: {b: {c: 5}}} is 5,
\* "a.b.z" is None); render leaves an interpolation that does not resolve as
\* it is written and returns a template without "{{" unchanged; a PRINT
\* step whose message has such interpolations succeeds and prints them as
\* written, and a TOOL step whose input has them raises nothing, makes its
\* call with them as written, and fails only if the call does.
C20_UnresolvedIsSoft ==
  /\ (last.op = "get_value" /\ last.key # <<>> /\ Head(last.key) # "$")
       => /\ last.ret # NoneV => Descend(Segments(last.key), last.context) = {last.ret}
          /\ last.ret = NoneV => Descend(Segments(last.key), last.context) \subseteq {NoneV}
          /\ (/\ last.key = <<"a", ".", "b", ".", "c">>
              /\ last.context.d["k"] = IntV(5)
              /\ "a" \in DOMAIN last.context.d
              /\ last.context.d["a"] = DictV("b" :> DictV("c" :> IntV(5))))
               => last.ret = IntV(5)
          /\ last.key = <<"a", ".", "b", ".", "z">> => last.ret = NoneV
  /\ last.op = "render"
       => /\ (~HasSection(last.template) /\ AllUnresolved(last.template, last.context))
               => last.ret = StrV(last.template)
          /\ (\A i \in 1..Len(last.template) : last.template[i] # "{{")
               => last.ret = StrV(last.template)
          /\ (/\ last.template = <<"{{", "a", "}}", "-", "{{", "b", "}}">>
              /\ GetValue(<<"a">>, last.context) = NoneV)
               => last.ret = StrV(<<"{{", "a", "}}", "-", "2">>)
  /\ (last.op = "step" /\ last.step.type = "print")
       => /\ last.raised = "none"
          /\ results[last.step.step].d["success"] = BoolV(TRUE)
          /\ (/\ ~HasSection(last.step.config.message)
              /\ AllUnresolved(last.step.config.message, last.context))
               => last.printed = StrV(last.step.config.message)
  /\ (last.op = "step" /\ last.step.type = "tool")
       => /\ last.raised = "none"
          /\ last.call.made
          /\ \A key \in StringInputs :
               (/\ ~HasSection(last.step.inputs[key].s)
                /\ AllUnresolved(last.step.inputs[key].s, last.context))
                 => last.call.kwargs[key] = last.step.inputs[key]
          /\ IsFailure(results[last.step.step])
               => last.outcome # [kind |-> "return", value |-> SuccessEnvelope]

\* a TOOL step whose input names a variable that does not exist made its
\* call with the input as written, and succeeded
C20_Witness ==
  /\ last.op = "step"
  /\ last.step.type = "tool"
  /\ last.step.inputs["symbol"] = StrV(<<"{{", "missing", "}}">>)
  /\ last.call.kwargs["symbol"] = StrV(<<"{{", "missing", "}}">>)
  /\ last.call.invoked = 1
  /\ ~IsFailure(results["t"])

(***************************************************************************)
(* Properties of the registry, the context and the results                 *)
(***************************************************************************)
\* C21: register_tool stores the definition under its name, replacing the
\* one held, and changes no other name, no running instance and no port; no
\* other call changes the registry, so the definition held is always the
\* one registered last; creating an instance for a name that was never
\* registered raises ValueError ("not registered") and leaves the registry
\* as it was.
C21_RegisterLastWins ==
  [][/\ last'.op = "register"
          => /\ DOMAIN tool_definitions' = DOMAIN tool_definitions \cup {last'.tool}
             /\ tool_definitions'[last'.tool] = last'.def
             /\ \A n \in DOMAIN tool_definitions \ {last'.tool} :
                  tool_definitions'[n] = tool_definitions[n]
             /\ servers' = servers
             /\ port_pool' = port_pool
     /\ last'.op # "register" => tool_definitions' = tool_definitions
     /\ (/\ last'.op = "start"
         /\ last'.tool \notin DOMAIN tool_definitions
         /\ last'.tool \notin DOMAIN servers
         /\ port_pool # {})
          => /\ last'.raised = "ValueError"
             /\ servers' = servers]_vars

\* "news" is registered again, with another definition, while its instance
\* runs: the registry holds the new definition, the instance is the one
\* built from the old
C21_Witness ==
  /\ last.op = "register"
  /\ last.def = [name |-> "news", cls |-> "missing"]
  /\ tool_definitions["news"].cls = "missing"
  /\ "news" \in DOMAIN servers
  /\ "quote" \in DOMAIN tool_definitions

\* C22: a TOOL input "{{path}}" whose path is a key of stored_data is
\* dispatched as the value stored_data holds, also when results has an entry
\* of that name; only otherwise is the first segment a step name and the
\* rest of the path followed into what results records as that step's
\* result.
C22_StoredDataFirst ==
  \A key \in StringInputs :
    LET t    == last.step.inputs[key].s
        segs == Segments(PathOf(t))
    IN  SingleInterpolation(t)
          => IF Len(segs) = 1 /\ segs[1] \in DOMAIN last.stored_before
             THEN last.call.kwargs[key] = last.stored_before[segs[1]]
             ELSE (/\ segs[1] \in DOMAIN last.before
                   /\ "result" \in DOMAIN last.before[segs[1]].d
                   /\ Descend(Tail(segs), last.before[segs[1]].d["result"]) # {})
                    => last.call.kwargs[key]
                         \in Descend(Tail(segs), last.before[segs[1]].d["result"])

\* C23: when execute_workflow returns, every step it executed, of every
\* type and also inside loops, has an entry in results under its name; a
\* step never removes an entry, and changes no entry but its own.
C23_OneEntryPerStep ==
  [][/\ pc' = "returned"
          => \A i \in 1..Len(executed') : executed'[i] \in DOMAIN results'
     /\ DOMAIN results \subseteq DOMAIN results'
     /\ last'.op = "step"
          => \A n \in DOMAIN results \ {last'.step.step} : results'[n] = results[n]]_vars

\* C24: when the first step of an execute_workflow call is about to run,
\* stored_data is exactly the variables of the workflow and results is
\* empty; when the call returns, results has entries only for steps the
\* call executed.
C24_FreshContext ==
  /\ (pc = "steps" /\ executed = <<>>)
       => /\ stored_data = Workflow.variables
          /\ results = EmptyMap
  /\ pc = "returned"
       => DOMAIN results \subseteq {executed[i] : i \in 1..Len(executed)}

\* the LOOP steps among the steps of a list
LoopSteps(steps) == {steps[i] : i \in {j \in 1..Len(steps) : steps[j].type = "loop"}}

\* C25: when execute_workflow returns, every step of a loop body has run as
\* often as the loop iterates (a loop of no iterations runs none); every
\* step, in whatever iteration, starts on the results and stored_data the
\* step before it left; the LOOP step itself starts its body and writes
\* nothing; and when the loop is done the _execute_steps call that ran it
\* has the last value, other than None, that a step of the body returned in
\* any iteration, and keeps what it had when there is none.
C25_LoopSemantics ==
  [][/\ (cur' # "" /\ pc' = "returned")
          => \A L \in LoopSteps(WorkflowNamed(cur').workflow) :
               \A i \in 1..Len(L.config.steps) :
                 Count(executed', L.config.steps[i].step) = L.config.times
     /\ last'.op = "step"
          => /\ last'.before = results
             /\ last'.stored_before = stored_data
     /\ (last'.op = "step" /\ last'.step.type = "loop")
          => /\ results' = results
             /\ stored_data' = stored_data
             /\ Len(frames') = Len(frames) + (IF last'.step.config.times > 0 THEN 1 ELSE 0)
             /\ frames'[Len(frames)].result = frames[Len(frames)].result
             /\ last'.step.config.times > 0
                  => /\ frames'[Len(frames')].steps = last'.step.config.steps
                     /\ frames'[Len(frames')].idx = 1
     /\ (/\ last'.op = "step"
         /\ last'.raised = "none"
         /\ frames[Len(frames)].kind = "loop"
         /\ Len(frames') = Len(frames) - 1)
          => /\ last'.ret # NoneV => frames'[Len(frames')].result = last'.ret
             /\ cur = "provided_flow"
                  => frames'[1].result =
                       (IF stored_data'["count"] # ProvidedFlow.variables["count"]
                        THEN stored_data'["count"] ELSE NoneV)]_vars

\* the loop of ProvidedFlow is done; its last iteration ended in a
\* validation failure and returned None, an earlier one stored a number:
\* the loop returned that number
C25_Witness ==
  /\ cur = "provided_flow"
  /\ pc = "steps"
  /\ executed = <<"twice">> \o Repeat(<<"ask">>, LoopTimes)
  /\ last.op = "step"
  /\ last.ret = NoneV
  /\ IsFailure(results["ask"])
  /\ Len(frames) = 1
  /\ frames[1].result = stored_data["count"]
  /\ stored_data["count"].k = "int"

\* C26: throughout an execute_workflow call and after it, the document the
\* caller passed is what it was at entry: the variables with their keys and
\* values, the tools, the step list, whatever the steps wrote.
C26_ConfigReadOnly ==
  cur # "" => /\ workflow_config.doc = WorkflowNamed(cur)
              /\ workflow_config.doc.variables = WorkflowNamed(cur).variables

\* a run whose INPUT step replaced the value of the variable count has
\* returned: the document still has the value it came with
C26_Witness ==
  /\ cur = "provided_flow"
  /\ pc = "returned"
  /\ stored_data["count"].k = "int"
  /\ workflow_config.doc.variables["count"] = StrV(<<"4">>)
  /\ workflow_config.doc.workflow = ProvidedFlow.workflow

\* the names of the steps nested under the BRANCH and ROUTER steps of a list
StubNested(steps) ==
  UNION {TokensOf(DeclaredOrder(steps[i].config.steps)) :
           i \in {j \in 1..Len(steps) : steps[j].type \in {"branch", "router"}}}

\* C27: a BRANCH or ROUTER step changes neither stored_data nor results nor
\* the manager, makes no tool call, prints nothing, returns None and raises
\* nothing; the run goes on with the step after it, and no step nested
\* under a BRANCH or ROUTER step is ever executed.
C27_StubsAreNoOps ==
  [][/\ (last'.op = "step" /\ last'.step.type \in {"branch", "router"})
          => /\ stored_data' = stored_data
             /\ results' = results
             /\ servers' = servers
             /\ port_pool' = port_pool
             /\ next_instance' = next_instance
             /\ tool_definitions' = tool_definitions
             /\ ~last'.call.made
             /\ last'.printed = NoneV
             /\ last'.ret = NoneV
             /\ last'.raised = "none"
             /\ frames[Len(frames)].idx < Len(frames[Len(frames)].steps)
                  => /\ pc' = "steps"
                     /\ Len(frames') = Len(frames)
                     /\ frames'[Len(frames')] =
                          [frames[Len(frames)] EXCEPT !.idx = @ + 1]
     /\ cur' # ""
          => \A i \in 1..Len(executed') :
               executed'[i] \notin StubNested(WorkflowNamed(cur').workflow)]_vars

\* a run has gone through a BRANCH and a ROUTER step and has returned
C27_Witness ==
  /\ cur = "loop_flow"
  /\ pc = "returned"
  /\ Count(executed, "b") = 1
  /\ Count(executed, "r") = 1
  /\ Count(executed, "never") = 0
  /\ Count(executed, "nor") = 0
  /\ executed[Len(executed)] = "end"

\* C28: in every state the free ports and the ports of the running
\* instances are disjoint and together are the initial pool, two running
\* tool types never hold one port, and a start that raises leaves the pool
\* as it was.
C28_PortConservation ==
  /\ port_pool \cap HeldPorts(servers) = {}
  /\ port_pool \cup HeldPorts(servers) = Ports
  /\ \A t1 \in DOMAIN servers, t2 \in DOMAIN servers :
       servers[t1].port = servers[t2].port => t1 = t2
  /\ (last.op = "start" /\ last.raised # "none") => port_pool = last.pool_before

\* C29: a TOOL step that ends in failure (the tool is not declared, the
\* call raised, or the envelope has no true success flag) leaves stored_data
\* as it was before the step, and changes no entry of results but its own.
C29_FailedToolWritesNothing ==
  (/\ last.op = "step"
   /\ last.step.type = "tool"
   /\ IsFailure(results[last.step.step]))
    => /\ stored_data = last.stored_before
       /\ \A n \in DOMAIN last.before \ {last.step.step} : results[n] = last.before[n]

(***************************************************************************)
(* Termination                                                             *)
(***************************************************************************)
RECURSIVE MaxExecutions(_, _, _)
\* how often the step called name may execute in a run of the step list:
\* the sum, over the steps of that name, of the product of the iteration
\* counts of the loops around them
MaxExecutions(steps, name, around) ==
  IF steps = <<>> THEN 0
  ELSE LET step == Head(steps)
       IN  (IF step.step = name THEN around ELSE 0)
             + (IF step.type = "loop"
                THEN MaxExecutions(step.config.steps, name, around * step.config.times)
                ELSE 0)
             + MaxExecutions(Tail(steps), name, around)

\* execute_workflow has come to its end: it has returned, the user has
\* cancelled a prompt, or start_server has raised
Ended ==
  \/ pc = "returned"
  \/ /\ pc = "aborted"
     /\ \/ last.op = "start_tool_server" /\ last.raised # "none"
        \/ last.op = "step" /\ last.typed.kind = "KeyboardInterrupt"

StepTakenIsExecStep ==
  [][(StepTaken <=> ExecStep) /\ (ENABLED StepTaken <=> pc = "steps")]_vars

====
